---- MODULE Spec2Model ----
(***************************************************************************)
(* Government_bus: the booking backend (Express + MySQL) as a state        *)
(* machine.  The server source is src/cleanup_deployments.bat, second      *)
(* server listing (lines 1174-2875).  The database tables are the state;   *)
(* every request handler is one action, and the booking and cancellation   *)
(* handlers are also given as the steps of a connection, split where their *)
(* transaction can interleave with another one (first snapshot read, row   *)
(* lock, commit).                                                          *)
(*                                                                         *)
(* Money is kept in hundredths of a rupee (DECIMAL(10,2) in the revenue    *)
(* query), so base * (1 - pct/100) is the integer base * (100 - pct).      *)
(* Time is counted in whole hours since midnight of day 0.                 *)
(***************************************************************************)
EXTENDS Integers, Sequences, FiniteSets, TLC

VARIABLES
    now,                  \* wall clock, hours
    settings,             \* table settings: key -> value string, or NoRow
    discounted_districts, \* table discounted_districts: set of district names
    routestops,           \* table routestops per schedule: sequence by stopOrder
    schedules,            \* table schedules: id -> [busName, seatLayout, bookingEnabled]
    subadmindistricts,    \* table subadmindistricts: user id -> set of districts
    bookings,             \* table bookings: sequence, a booking's id is its index
    bookedseats,          \* table bookedseats: set of [bookingId, seatId, origin, destination]
    govtbeneficiaries,    \* table govtbeneficiaries: registration -> row, or NoRow
    users,                \* table users: id -> row, or NoRow
    proc,                 \* the request each connection is serving and where it stands
    resp                  \* the last response sent: [op, code, error]

vars == <<now, settings, discounted_districts, routestops, schedules,
          subadmindistricts, bookings, bookedseats, govtbeneficiaries, users,
          proc, resp>>

-----------------------------------------------------------------------------
(* Bounds of the model *)

MaxBookings == 2

-----------------------------------------------------------------------------
(* Program constants *)

Percent == 100
DefaultChildDiscount == 40
DefaultSeniorDiscount == 50
LiveWindowHours == 24
HoursPerDay == 24
CancelLeadHours == 1
AadhaarLength == 12
FreeSeatsPerClaim == 1

-----------------------------------------------------------------------------
(* Values *)

NoRow == "NO_ROW"
NoOrder == 0 - 1
NoTime == 0 - 1
Null == "NULL"
NoUser == "ANONYMOUS"
UserIds == {"u1", "u2", "admin", "sub1"}
Procs == {"p1", "p2"}
Regs == {"R1"}
SettingKeys == {"isBookingSystemOnline", "isFreeBookingEnabled", "isCancellationEnabled",
                "isDiscountSystemEnabled", "childDiscountPercentage",
                "seniorDiscountPercentage"}

Max(a, b) == IF a >= b THEN a ELSE b
Min(a, b) == IF a <= b THEN a ELSE b

RECURSIVE SumSeq(_)
SumSeq(s) == IF s = <<>> THEN 0 ELSE Head(s) + SumSeq(Tail(s))

SeqToSet(s) == {s[i] : i \in 1..Len(s)}

(* String.prototype.trim().toLowerCase() on the strings of the model. *)
Normalize(s) ==
    CASE s \in {"Rohtak", "rohtak", " Rohtak"} -> "rohtak"
      [] s \in {"Gohana", "gohana", " gohana "} -> "gohana"
      [] s \in {"Panipat", "panipat"} -> "panipat"
      [] s \in {"Karnal", "karnal"} -> "karnal"
      [] s \in {"", " "} -> ""
      [] OTHER -> s

(* String.prototype.trim() === '' *)
IsBlank(s) == Normalize(s) = ""

-----------------------------------------------------------------------------
(* RouteModel: fetchAndAssembleSchedules for one schedule id.  db is the   *)
(* view of the tables the reading connection has (the live tables or the   *)
(* snapshot its transaction took at its first consistent read).            *)

(* a read that sees the rows a schedule edit has written and not committed *)
DirtyStops(rs, pr) ==
    [id \in DOMAIN rs |->
        IF \E q \in DOMAIN pr : pr[q].pc = "edit_insert" /\ pr[q].id = id
        THEN pr[CHOOSE q \in DOMAIN pr : pr[q].pc = "edit_insert" /\ pr[q].id = id].working
        ELSE rs[id]]

(* what a SELECT on routestops returns: the committed rows; the rows other
   transactions have written and not committed are not visible (InnoDB
   consistent read, the isolation level is the default) *)
CommittedStops(rs, pr) == rs

DbView == [settings |-> settings, discounted_districts |-> discounted_districts,
           routestops |-> CommittedStops(routestops, proc), schedules |-> schedules]

SettingIsTrue(db, key) == db.settings[key] = "true"

(* rows of routestops JOIN schedules, ORDER BY stopOrder; order = index-1 *)
RouteRows(db, id) ==
    IF id \in DOMAIN db.schedules /\ id \in DOMAIN db.routestops
    THEN db.routestops[id] ELSE <<>>

ValidStops(db, id) ==
    LET rows == RouteRows(db, id)
        keep == {i \in 1..Len(rows) : ~IsBlank(rows[i].stopName)}
        nth[k \in 1..Cardinality(keep)] ==
            CHOOSE i \in keep : Cardinality({j \in keep : j < i}) = k - 1
    IN  [k \in 1..Cardinality(keep) |->
            [name |-> rows[nth[k]].stopName,
             normalizedName |-> Normalize(rows[nth[k]].stopName),
             departure |-> rows[nth[k]].departureTime,
             fare |-> rows[nth[k]].fare,
             order |-> nth[k] - 1]]

NoSchedule == [found |-> FALSE]

fetchAndAssembleSchedules(db, id) ==
    LET validStops == ValidStops(db, id)
    IN  IF validStops = <<>> THEN NoSchedule
        ELSE [found |-> TRUE,
              seatLayout |-> db.schedules[id].seatLayout,
              bookingEnabled |->
                  SettingIsTrue(db, "isBookingSystemOnline")
                  /\ db.schedules[id].bookingEnabled = "1",
              isFreeBookingEnabled |->
                  SettingIsTrue(db, "isBookingSystemOnline")
                  /\ SettingIsTrue(db, "isFreeBookingEnabled")
                  /\ db.schedules[id].bookingEnabled = "1",
              origin |-> validStops[1].name,
              isDiscountEnabled |->
                  SettingIsTrue(db, "isDiscountSystemEnabled")
                  /\ validStops[1].name \in db.discounted_districts,
              fullRouteStops |-> validStops]

(* Array.prototype.find over fullRouteStops: the position of the first match,
   0 when find returns undefined *)
FindStop(stopsSeq, normalized) ==
    LET hits == {i \in 1..Len(stopsSeq) : stopsSeq[i].normalizedName = normalized}
    IN  IF hits = {} THEN 0
        ELSE CHOOSE i \in hits : \A j \in hits : i <= j

(* stopOrderMap: reduce over fullRouteStops, a later stop of the same
   normalized name overwrites an earlier one; undefined is NoOrder *)
StopOrderOf(stopsSeq, normalized) ==
    LET hits == {i \in 1..Len(stopsSeq) : stopsSeq[i].normalizedName = normalized}
    IN  IF hits = {} THEN NoOrder
        ELSE stopsSeq[CHOOSE i \in hits : \A j \in hits : i >= j].order

-----------------------------------------------------------------------------
(* SegmentAvailability: GET /bookings/seats/:scheduleId *)

(* the age test that drops a booking made exactly 24 hours ago *)
IsLiveStrict(bookingDate, t) == bookingDate > t - LiveWindowHours

(* b.bookingDate >= NOW() - INTERVAL 24 HOUR *)
IsLive(bookingDate, t) == bookingDate >= t - LiveWindowHours

(* SELECT bs.seatId, b.origin, b.destination FROM bookedseats bs JOIN bookings b
   WHERE b.scheduleId = ? AND live: the rows the loop below walks *)
LiveSegments(bks, seatRows, scheduleId, t) ==
    {[seatId |-> r.seatId,
      origin |-> bks[r.bookingId].origin,
      destination |-> bks[r.bookingId].destination] :
        r \in {x \in seatRows :
                  /\ x.bookingId \in 1..Len(bks)
                  /\ bks[x.bookingId].scheduleId = scheduleId
                  /\ IsLive(bks[x.bookingId].bookingDate, t)}}

(* the overlap test with a closed upper end: a passenger who alights where
   the request boards still holds the seat *)
SegmentsOverlapClosed(userO, userD, occO, occD) == Max(userO, occO) <= Min(userD, occD)

SegmentsOverlap(userO, userD, occO, occD) == Max(userO, occO) < Min(userD, occD)

(* for (const segment of bookedSegments) { ... unavailableSeats.add(...) } *)
RECURSIVE UnavailableLoop(_, _, _, _, _)
UnavailableLoop(bookedSegments, stopsSeq, userO, userD, acc) ==
    IF bookedSegments = {} THEN acc
    ELSE LET segment == CHOOSE r \in bookedSegments : TRUE
             bookingOriginOrder == StopOrderOf(stopsSeq, Normalize(segment.origin))
             bookingDestinationOrder == StopOrderOf(stopsSeq, Normalize(segment.destination))
             rest == bookedSegments \ {segment}
         IN  IF bookingOriginOrder = NoOrder \/ bookingDestinationOrder = NoOrder
             THEN UnavailableLoop(rest, stopsSeq, userO, userD, acc)
             ELSE IF SegmentsOverlap(userO, userD, bookingOriginOrder, bookingDestinationOrder)
                  THEN UnavailableLoop(rest, stopsSeq, userO, userD, acc \cup {segment.seatId})
                  ELSE UnavailableLoop(rest, stopsSeq, userO, userD, acc)

(* The handler's answer: [code, seats].  userOrigin / userDestination are the
   query parameters; "" stands for a missing one. *)
getBookedSeatsForSegment(db, bks, seatRows, t, scheduleId, userOrigin, userDestination) ==
    IF userOrigin = "" \/ userDestination = "" THEN [code |-> 400, seats |-> {}]
    ELSE LET schedule == fetchAndAssembleSchedules(db, scheduleId)
         IN  IF ~schedule.found THEN [code |-> 404, seats |-> {}]
             ELSE LET userOriginOrder ==
                          StopOrderOf(schedule.fullRouteStops, Normalize(userOrigin))
                      userDestinationOrder ==
                          StopOrderOf(schedule.fullRouteStops, Normalize(userDestination))
                  IN  IF \/ userOriginOrder = NoOrder
                         \/ userDestinationOrder = NoOrder
                      THEN [code |-> 400, seats |-> {}]
                      ELSE IF userOriginOrder >= userDestinationOrder
                           THEN [code |-> 400, seats |-> {}]
                           ELSE [code |-> 200,
                                 seats |-> UnavailableLoop(
                                     LiveSegments(bks, seatRows, scheduleId, t),
                                     schedule.fullRouteStops,
                                     userOriginOrder, userDestinationOrder, {})]

-----------------------------------------------------------------------------
(* FareEngine, as POST /bookings computes it *)

(* Number(s) for the strings the settings table holds in the model *)
NumberOf(s) ==
    CASE s = "0" -> 0 [] s = "25" -> 25 [] s = "40" -> 40
      [] s = "50" -> 50 [] s = "100" -> 100 [] s = "150" -> 150

(* Number(row[0]?.value || dflt): a missing row or an empty string gives dflt *)
DiscountSetting(db, key, dflt) ==
    IF db.settings[key] = NoRow \/ db.settings[key] = "" THEN dflt
    ELSE NumberOf(db.settings[key])

(* the pricing with the discount taken off whether or not it is enabled *)
PassengerFareUngated(baseFarePerSeat, type, isDiscountEnabled, childDiscount, seniorDiscount) ==
    IF type = "CHILD" THEN baseFarePerSeat * (Percent - childDiscount)
    ELSE IF type = "SENIOR" THEN baseFarePerSeat * (Percent - seniorDiscount)
    ELSE baseFarePerSeat * Percent

(* finalFarePerSeat, in hundredths *)
PassengerFare(baseFarePerSeat, type, isDiscountEnabled, childDiscount, seniorDiscount) ==
    IF isDiscountEnabled /\ type = "CHILD"
    THEN baseFarePerSeat * (Percent - childDiscount)
    ELSE IF isDiscountEnabled /\ type = "SENIOR"
         THEN baseFarePerSeat * (Percent - seniorDiscount)
         ELSE baseFarePerSeat * Percent

(* String length of the document numbers of the model *)
StrLen(s) ==
    CASE s = "" -> 0 [] s = "12345678901" -> 11
      [] s = "123456789012" -> 12 [] s = "12345678901x" -> 12

(* lines 2079-2086: the per-seat validation loop; TRUE when no seat is refused *)
SeatsAreValid(seats) ==
    \A i \in 1..Len(seats) :
        /\ ~IsBlank(seats[i].fullName)
        /\ seats[i].type \in {"CHILD", "SENIOR"} =>
               /\ seats[i].aadhaarNumber # ""
               /\ StrLen(seats[i].aadhaarNumber) = AadhaarLength

(* lines 2122-2148: one passengerDetail per requested seat *)
PassengerDetailOf(seat, baseFarePerSeat, isDiscountEnabled, childDiscount, seniorDiscount) ==
    [seatId |-> seat.seatId,
     fullName |-> seat.fullName,
     type |-> seat.type,
     status |-> "BOOKED",
     aadhaarNumber |->
         IF isDiscountEnabled /\ seat.type \in {"CHILD", "SENIOR"}
         THEN seat.aadhaarNumber ELSE Null,
     fare |-> PassengerFare(baseFarePerSeat, seat.type, isDiscountEnabled,
                            childDiscount, seniorDiscount)]

(* lines 2150-2161 *)
DiscountTypeForDb(seats) ==
    LET discountTypes == {seats[i].type : i \in 1..Len(seats)} \cap {"CHILD", "SENIOR"}
    IN  IF discountTypes = {} THEN "NONE"
        ELSE IF Cardinality(discountTypes) > 1 THEN "MIXED"
        ELSE IF "CHILD" \in discountTypes THEN "CHILD" ELSE "SENIOR"

(* status is not among the columns POST /bookings and POST /bookings/free
   insert: the column default of the bookings table *)
DefaultBookingStatus == "CONFIRMED"

(* lines 2092-2181: what the transaction of POST /bookings reads and computes
   from its snapshot db.  [code, error] or [code |-> 0, row] when it goes on
   to insert row. *)
PaidPrepare(db, userId, scheduleId, seats, origin, destination) ==
    LET schedule == fetchAndAssembleSchedules(db, scheduleId)
    IN  IF ~schedule.found THEN [code |-> 404, error |-> "ScheduleNotFound"]
        ELSE
        LET originAt == FindStop(schedule.fullRouteStops, Normalize(origin))
            destAt == FindStop(schedule.fullRouteStops, Normalize(destination))
            originStop == schedule.fullRouteStops[originAt]
            destStop == schedule.fullRouteStops[destAt]
        IN  IF originAt = 0 \/ destAt = 0
            THEN [code |-> 400, error |-> "InvalidSegment"]
            ELSE IF originStop.order >= destStop.order
            THEN [code |-> 400, error |-> "InvalidSegment"]
            ELSE
            LET baseFarePerSeat == destStop.fare - originStop.fare
                childDiscount ==
                    DiscountSetting(db, "childDiscountPercentage", DefaultChildDiscount)
                seniorDiscount ==
                    DiscountSetting(db, "seniorDiscountPercentage", DefaultSeniorDiscount)
                isDiscountEnabled ==
                    SettingIsTrue(db, "isDiscountSystemEnabled") /\ schedule.isDiscountEnabled
                passengerDetails ==
                    [i \in 1..Len(seats) |->
                        PassengerDetailOf(seats[i], baseFarePerSeat, isDiscountEnabled,
                                          childDiscount, seniorDiscount)]
                totalFare == SumSeq([i \in 1..Len(seats) |-> passengerDetails[i].fare])
            IN  [code |-> 0,
                 row |-> [userId |-> userId,
                          scheduleId |-> scheduleId,
                          fare |-> totalFare,
                          originalFare |-> totalFare,
                          isFreeTicket |-> FALSE,
                          origin |-> origin,
                          destination |-> destination,
                          discountType |-> DiscountTypeForDb(seats),
                          status |-> DefaultBookingStatus,
                          govtExamRegistrationNumber |-> Null,
                          passengerDetails |-> passengerDetails]]

(* the inserts under a key that two rows of one booking never violate *)
SeatInsertsNeverCollide(seatIds) == FALSE

(* The rows of bookedseats are addressed by (bookingId, seatId) (the DELETE of
   the cancel handler) and an insert can fail with ER_DUP_ENTRY: the key of
   the table.  The key includes bookingId: the seats endpoint filters the
   rows of one seat by the age of their bookings and by segment, and nothing
   deletes the rows of an expired booking, so rows of several bookings for
   one seat and segment are stored side by side.  TRUE when inserting one row
   per entry of seatIds for a fresh booking id violates the key. *)
SeatInsertsCollide(seatIds) ==
    \E i, j \in 1..Len(seatIds) : i < j /\ seatIds[i] = seatIds[j]

(* the inserts that stop after the first seat *)
SeatRowsFirstOnly(bookingId, seatIds, origin, destination) ==
    {[bookingId |-> bookingId, seatId |-> seatIds[i],
      origin |-> origin, destination |-> destination] : i \in {1}}

SeatRows(bookingId, seatIds, origin, destination) ==
    {[bookingId |-> bookingId, seatId |-> seatIds[i],
      origin |-> origin, destination |-> destination] : i \in 1..Len(seatIds)}

-----------------------------------------------------------------------------
(* CancellationEngine: POST /bookings/:bookingId/cancel *)

(* the cutoff without the move to the next day *)
oneHourBeforeDepartureSameDay(bookingDate, departure) ==
    (bookingDate \div HoursPerDay) * HoursPerDay + departure - CancelLeadHours

(* lines 2250-2258: bookingDate with the time of day set to the departure,
   moved a day on when that is before bookingDate, less one hour *)
oneHourBeforeDeparture(bookingDate, departure) ==
    LET sameDay == (bookingDate \div HoursPerDay) * HoursPerDay + departure
        departureDateTime == IF sameDay < bookingDate THEN sameDay + HoursPerDay
                             ELSE sameDay
    IN  departureDateTime - CancelLeadHours

(* the lookup without its status test: an already cancelled passenger is found
   again *)
FindPassengerAnyStatus(passengerDetails, seatId) ==
    LET hits == {i \in 1..Len(passengerDetails) :
                    passengerDetails[i].seatId = seatId}
    IN  IF hits = {} THEN 0 ELSE CHOOSE i \in hits : \A j \in hits : i <= j

(* passengerDetails.findIndex(p => p.seatId === seatId && p.status !== 'CANCELLED'),
   0 for -1 *)
FindBookedPassenger(passengerDetails, seatId) ==
    LET hits == {i \in 1..Len(passengerDetails) :
                    /\ passengerDetails[i].seatId = seatId
                    /\ passengerDetails[i].status # "CANCELLED"}
    IN  IF hits = {} THEN 0 ELSE CHOOSE i \in hits : \A j \in hits : i <= j

(* lines 2269-2277: the loop over the requested seat ids *)
RECURSIVE CancelLoop(_, _, _, _)
CancelLoop(passengerDetails, seatIds, fareToRefund, successfullyCancelledSeats) ==
    IF seatIds = <<>>
    THEN [passengerDetails |-> passengerDetails,
          fareToRefund |-> fareToRefund,
          successfullyCancelledSeats |-> successfullyCancelledSeats]
    ELSE LET seatId == Head(seatIds)
             passengerIndex == FindBookedPassenger(passengerDetails, seatId)
         IN  IF passengerIndex # 0
             THEN CancelLoop(
                      [passengerDetails EXCEPT ![passengerIndex].status = "CANCELLED"],
                      Tail(seatIds),
                      fareToRefund + passengerDetails[passengerIndex].fare,
                      Append(successfullyCancelledSeats, seatId))
             ELSE CancelLoop(passengerDetails, Tail(seatIds), fareToRefund,
                             successfullyCancelledSeats)

(* lines 2288-2291 *)
NewStatus(passengerDetails) ==
    LET totalSeats == Len(passengerDetails)
        totalCancelledSeats ==
            Cardinality({i \in 1..Len(passengerDetails) :
                            passengerDetails[i].status = "CANCELLED"})
    IN  IF totalCancelledSeats = totalSeats THEN "CANCELLED" ELSE "PARTIALLY_CANCELLED"

(* the outcome without the test for an empty list of cancelled seats *)
CancelOutcomeWithoutEmptyTest(db, booking, seatIds, t) ==
    LET schedule == fetchAndAssembleSchedules(db, booking.scheduleId)
    IN  IF ~schedule.found THEN [code |-> 404, error |-> "ScheduleNotFound"]
        ELSE
        LET originAt == FindStop(schedule.fullRouteStops, Normalize(booking.origin))
        IN  IF originAt = 0 THEN [code |-> 500, error |-> "NoDeparture"]
            ELSE IF schedule.fullRouteStops[originAt].departure = NoTime
            THEN [code |-> 500, error |-> "NoDeparture"]
            ELSE IF t >= oneHourBeforeDeparture(booking.bookingDate,
                                                schedule.fullRouteStops[originAt].departure)
            THEN [code |-> 400, error |-> "WindowClosed"]
            ELSE
            LET done == CancelLoop(booking.passengerDetails, seatIds, 0, <<>>)
            IN  [code |-> 200, error |-> "",
                 cancelled |-> SeqToSet(done.successfullyCancelledSeats),
                 row |-> [booking EXCEPT
                             !.fare = booking.fare - done.fareToRefund,
                             !.passengerDetails = done.passengerDetails,
                             !.status = NewStatus(done.passengerDetails)]]

(* lines 2237-2296, run with the Booking row locked: [code, error] and, for
   code 200, the updated row and the seat ids whose bookedseats rows go *)
CancelOutcome(db, booking, seatIds, t) ==
    LET schedule == fetchAndAssembleSchedules(db, booking.scheduleId)
    IN  IF ~schedule.found THEN [code |-> 404, error |-> "ScheduleNotFound"]
        ELSE
        LET originAt == FindStop(schedule.fullRouteStops, Normalize(booking.origin))
        IN  IF originAt = 0 THEN [code |-> 500, error |-> "NoDeparture"]
            ELSE IF schedule.fullRouteStops[originAt].departure = NoTime
            THEN [code |-> 500, error |-> "NoDeparture"]
            ELSE IF t >= oneHourBeforeDeparture(booking.bookingDate,
                                                schedule.fullRouteStops[originAt].departure)
            THEN [code |-> 400, error |-> "WindowClosed"]
            ELSE
            LET done == CancelLoop(booking.passengerDetails, seatIds, 0, <<>>)
            IN  IF Len(done.successfullyCancelledSeats) = 0
                THEN [code |-> 400, error |-> "NothingToCancel"]
                ELSE [code |-> 200, error |-> "",
                      cancelled |-> SeqToSet(done.successfullyCancelledSeats),
                      row |-> [booking EXCEPT
                                  !.fare = booking.fare - done.fareToRefund,
                                  !.passengerDetails = done.passengerDetails,
                                  !.status = NewStatus(done.passengerDetails)]]

-----------------------------------------------------------------------------
(* State after deployment: empty tables but for the users and one schedule *)

InitialRoute ==
    << [stopName |-> "Rohtak", departureTime |-> 10, fare |-> 0],
       [stopName |-> "Gohana", departureTime |-> 11, fare |-> 50],
       [stopName |-> "Panipat", departureTime |-> 12, fare |-> 100] >>

(* the schedules row of S1 *)
InitialSchedule == [busName |-> "Haryana Roadways", seatLayout |-> "2x2",
                    bookingEnabled |-> "1"]

(* accounts: two passengers, the administrator and a sub-admin of Rohtak *)
InitialUsers ==
    [u \in UserIds |->
        [role |-> CASE u = "admin" -> "ADMIN" [] u = "sub1" -> "SUB_ADMIN"
                    [] OTHER -> "USER",
         phone |-> CASE u = "u1" -> "ph1" [] u = "u2" -> "ph2" [] u = "sub1" -> "ph5"
                     [] OTHER -> "ph0",
         govtExamRegistrationNumber |-> Null]]

InitialAssignments == [u \in {"sub1"} |-> {"Rohtak"}]

NoBeneficiary == [exists |-> FALSE, phone |-> "", ticketClaimed |-> FALSE]

Idle == [pc |-> "idle"]

Init ==
    /\ now = 8
    /\ settings = [k \in SettingKeys |-> NoRow]
    /\ discounted_districts = {}
    /\ routestops = [id \in {"S1"} |-> InitialRoute]
    /\ schedules = [id \in {"S1"} |-> InitialSchedule]
    /\ subadmindistricts = InitialAssignments
    /\ bookings = <<>>
    /\ bookedseats = {}
    /\ govtbeneficiaries = [r \in Regs |-> NoBeneficiary]
    /\ users = InitialUsers
    /\ proc = [p \in Procs |-> Idle]
    /\ resp = [op |-> "", code |-> 0, error |-> ""]

Respond(op, code, error) == resp' = [op |-> op, code |-> code, error |-> error]

Finish(p) == proc' = [proc EXCEPT ![p] = Idle]

(* requireAuth: the authenticate middleware found no users row for the token *)
IsAuthenticated(userId) == userId \in DOMAIN users

(* transactions that will still insert a bookings row *)
PendingInserts == Cardinality({q \in Procs : proc[q].pc \in {"paid_tx", "free_tx", "free_locked"}})

Go == [code |-> 0, error |-> ""]

-----------------------------------------------------------------------------
(* BookingLedger: POST /bookings *)

(* lines 2071-2181: requireAuth, validation, BEGIN, the snapshot reads and
   the pricing; code 0 with the row to insert, or the refusal *)
PaidGate(db, userId, scheduleId, seats, origin, destination) ==
    IF ~IsAuthenticated(userId) THEN [code |-> 401, error |-> "AuthRequired"]
    ELSE IF seats = <<>> \/ origin = "" \/ destination = ""
    THEN [code |-> 400, error |-> "BadRequest"]
    ELSE IF ~SeatsAreValid(seats) THEN [code |-> 400, error |-> "InvalidPassenger"]
    ELSE PaidPrepare(db, userId, scheduleId, seats, origin, destination)

(* lines 2163-2201: the INSERTs (bookingDate = new Date()) and COMMIT, or
   ER_DUP_ENTRY, ROLLBACK and 409 *)
PaidInsert(bks, seatRows, row, seatIds, t) ==
    IF SeatInsertsCollide(seatIds)
    THEN [code |-> 409, error |-> "SeatConflict", bookings |-> bks, bookedseats |-> seatRows]
    ELSE [code |-> 201, error |-> "",
          bookings |-> Append(bks, [bookingDate |-> t] @@ row),
          bookedseats |-> seatRows \cup
              SeatRows(Len(bks) + 1, seatIds, row.origin, row.destination)]

RequestedSeatIds(seats) == [i \in 1..Len(seats) |-> seats[i].seatId]

(* the request served without another one in between *)
bookPaid(userId, scheduleId, seats, origin, destination) ==
    /\ Len(bookings) < MaxBookings
    /\ LET gate == PaidGate(DbView, userId, scheduleId, seats, origin, destination)
           done == PaidInsert(bookings, bookedseats, gate.row,
                              RequestedSeatIds(seats), now)
       IN  IF gate.code # 0
           THEN Respond("bookPaid", gate.code, gate.error)
                /\ UNCHANGED <<bookings, bookedseats>>
           ELSE /\ Respond("bookPaid", done.code, done.error)
                /\ bookings' = done.bookings
                /\ bookedseats' = done.bookedseats
    /\ UNCHANGED <<now, settings, discounted_districts, routestops, schedules, subadmindistricts,
                   govtbeneficiaries, users, proc>>

(* the same request as the steps of its connection p *)
PaidBegin(p, userId, scheduleId, seats, origin, destination) ==
    /\ proc[p].pc = "idle"
    /\ Len(bookings) + PendingInserts < MaxBookings
    /\ UNCHANGED <<now, settings, discounted_districts, routestops, schedules, subadmindistricts, bookings,
                   bookedseats, govtbeneficiaries, users>>
    /\ LET gate == PaidGate(DbView, userId, scheduleId, seats, origin, destination)
       IN  IF gate.code # 0
           THEN Respond("bookPaid", gate.code, gate.error) /\ UNCHANGED proc
           ELSE /\ proc' = [proc EXCEPT ![p] =
                       [pc |-> "paid_tx", row |-> gate.row,
                        seatIds |-> RequestedSeatIds(seats),
                        began |-> Len(bookings)]]
                /\ UNCHANGED resp

PaidCommit(p) ==
    /\ proc[p].pc = "paid_tx"
    /\ Finish(p)
    /\ LET done == PaidInsert(bookings, bookedseats, proc[p].row, proc[p].seatIds, now)
       IN  /\ Respond("bookPaid", done.code, done.error)
           /\ bookings' = done.bookings
           /\ bookedseats' = done.bookedseats
    /\ UNCHANGED <<now, settings, discounted_districts, routestops, schedules, subadmindistricts,
                   govtbeneficiaries, users>>

-----------------------------------------------------------------------------
(* BookingLedger: POST /bookings/free *)

(* lines 2010-2029: requireAuth, validation, BEGIN and the toggle read *)
FreeGate(db, userId, seatIds, origin, destination, registrationNumber, phone) ==
    IF ~IsAuthenticated(userId) THEN [code |-> 401, error |-> "AuthRequired"]
    ELSE IF origin = "" \/ destination = "" \/ registrationNumber = "" \/ phone = ""
    THEN [code |-> 400, error |-> "BadRequest"]
    ELSE IF Len(seatIds) # FreeSeatsPerClaim
    THEN [code |-> 400, error |-> "TooManySeats"]
    ELSE IF ~SettingIsTrue(db, "isFreeBookingEnabled")
    THEN [code |-> 403, error |-> "FeatureDisabled"]
    ELSE Go

(* lines 2031-2040: what SELECT ... FOR UPDATE returns and the two checks *)
FreeClaimCheck(gb, registrationNumber, phone) ==
    IF registrationNumber \notin DOMAIN gb
    THEN [code |-> 404, error |-> "EligibilityNotFound"]
    ELSE IF ~gb[registrationNumber].exists \/ gb[registrationNumber].phone # phone
    THEN [code |-> 404, error |-> "EligibilityNotFound"]
    ELSE IF gb[registrationNumber].ticketClaimed
    THEN [code |-> 409, error |-> "AlreadyClaimed"]
    ELSE Go

(* lines 2042-2047: the bookings row of a free ticket *)
FreeBookingRow(userId, scheduleId, origin, destination, registrationNumber, t) ==
    [userId |-> userId,
     scheduleId |-> scheduleId,
     fare |-> 0,
     originalFare |-> 0,
     bookingDate |-> t,
     isFreeTicket |-> TRUE,
     origin |-> origin,
     destination |-> destination,
     discountType |-> "NONE",
     status |-> DefaultBookingStatus,
     govtExamRegistrationNumber |-> registrationNumber,
     passengerDetails |-> <<>>]

(* lines 2042-2056: the INSERTs, ticketClaimed = 1, the users link, COMMIT *)
FreeInsert(r) ==
    /\ bookings' = Append(bookings,
           FreeBookingRow(r.userId, r.scheduleId, r.origin, r.destination,
                          r.registrationNumber, now))
    /\ bookedseats' = bookedseats \cup
           SeatRows(Len(bookings) + 1, r.seatIds, r.origin, r.destination)
    /\ govtbeneficiaries' =
           [govtbeneficiaries EXCEPT ![r.registrationNumber].ticketClaimed = TRUE]
    /\ users' = IF users[r.userId].govtExamRegistrationNumber = Null
                THEN [users EXCEPT ![r.userId].govtExamRegistrationNumber =
                                       r.registrationNumber]
                ELSE users
    /\ Respond("bookFree", 201, "")

(* a plain SELECT in place of SELECT ... FOR UPDATE: nobody ever holds the row *)
NoBeneficiaryLock(q, reg) == FALSE

HoldsBeneficiaryLock(q, reg) ==
    proc[q].pc = "free_locked" /\ proc[q].registrationNumber = reg

FreeRequest(userId, scheduleId, seatIds, origin, destination, registrationNumber, phone) ==
    [userId |-> userId, scheduleId |-> scheduleId, seatIds |-> seatIds,
     origin |-> origin, destination |-> destination,
     registrationNumber |-> registrationNumber, phone |-> phone]

(* the request served without another one in between *)
bookFree(userId, scheduleId, seatIds, origin, destination, registrationNumber, phone) ==
    /\ Len(bookings) < MaxBookings
    /\ LET gate == FreeGate(DbView, userId, seatIds, origin, destination,
                            registrationNumber, phone)
           claim == FreeClaimCheck(govtbeneficiaries, registrationNumber, phone)
       IN  IF gate.code # 0
           THEN Respond("bookFree", gate.code, gate.error)
                /\ UNCHANGED <<bookings, bookedseats, govtbeneficiaries, users>>
           ELSE IF claim.code # 0
           THEN Respond("bookFree", claim.code, claim.error)
                /\ UNCHANGED <<bookings, bookedseats, govtbeneficiaries, users>>
           ELSE FreeInsert(FreeRequest(userId, scheduleId, seatIds, origin, destination,
                                       registrationNumber, phone))
    /\ UNCHANGED <<now, settings, discounted_districts, routestops, schedules, subadmindistricts, proc>>

(* the same request as the steps of its connection p *)
FreeBegin(p, userId, scheduleId, seatIds, origin, destination, registrationNumber, phone) ==
    /\ proc[p].pc = "idle"
    /\ Len(bookings) + PendingInserts < MaxBookings
    /\ UNCHANGED <<now, settings, discounted_districts, routestops, schedules, subadmindistricts, bookings,
                   bookedseats, govtbeneficiaries, users>>
    /\ LET gate == FreeGate(DbView, userId, seatIds, origin, destination,
                            registrationNumber, phone)
       IN  IF gate.code # 0
           THEN Respond("bookFree", gate.code, gate.error) /\ UNCHANGED proc
           ELSE /\ proc' = [proc EXCEPT ![p] =
                       [pc |-> "free_tx"] @@
                       FreeRequest(userId, scheduleId, seatIds, origin, destination,
                                   registrationNumber, phone)
                       @@ [began |-> Len(bookings)]]
                /\ UNCHANGED resp

(* SELECT ... FOR UPDATE waits while another transaction holds the row, then
   reads the committed row *)
FreeLock(p) ==
    /\ proc[p].pc = "free_tx"
    /\ \A q \in Procs \ {p} : ~HoldsBeneficiaryLock(q, proc[p].registrationNumber)
    /\ LET claim == FreeClaimCheck(govtbeneficiaries, proc[p].registrationNumber,
                                   proc[p].phone)
       IN  IF claim.code # 0
           THEN Respond("bookFree", claim.code, claim.error) /\ Finish(p)
           ELSE /\ proc' = [proc EXCEPT ![p].pc = "free_locked"]
                /\ UNCHANGED resp
    /\ UNCHANGED <<now, settings, discounted_districts, routestops, schedules, subadmindistricts, bookings,
                   bookedseats, govtbeneficiaries, users>>

FreeCommit(p) ==
    /\ proc[p].pc = "free_locked"
    /\ Finish(p)
    /\ FreeInsert(proc[p])
    /\ UNCHANGED <<now, settings, discounted_districts, routestops, schedules, subadmindistricts>>

-----------------------------------------------------------------------------
(* CancellationEngine: the handler *)

(* lines 2204-2221: requireAuth, validation, BEGIN and the toggle read (the
   first consistent read of the transaction: its snapshot is taken here) *)
CancelGate(db, userId, seatIds) ==
    IF ~IsAuthenticated(userId) THEN [code |-> 401, error |-> "AuthRequired"]
    ELSE IF seatIds = <<>> THEN [code |-> 400, error |-> "BadRequest"]
    ELSE IF ~SettingIsTrue(db, "isCancellationEnabled")
    THEN [code |-> 403, error |-> "FeatureDisabled"]
    ELSE Go

(* the row checks without the test for a cancelled booking *)
CancelRowCheckNoStatus(bks, userId, bookingId) ==
    IF bookingId \notin 1..Len(bks) THEN [code |-> 404, error |-> "BookingNotFound"]
    ELSE IF bks[bookingId].userId # userId THEN [code |-> 403, error |-> "Unauthorized"]
    ELSE Go

(* the row checks without the comparison of the owner with the caller *)
CancelRowCheckAnyUser(bks, userId, bookingId) ==
    IF bookingId \notin 1..Len(bks) THEN [code |-> 404, error |-> "BookingNotFound"]
    ELSE IF bks[bookingId].status = "CANCELLED"
    THEN [code |-> 400, error |-> "AlreadyCancelled"]
    ELSE Go

(* lines 2223-2235: SELECT ... FOR UPDATE on the Booking row, then the owner
   and status checks on the committed row *)
CancelRowCheck(bks, userId, bookingId) ==
    IF bookingId \notin 1..Len(bks) THEN [code |-> 404, error |-> "BookingNotFound"]
    ELSE IF bks[bookingId].userId # userId THEN [code |-> 403, error |-> "Unauthorized"]
    ELSE IF bks[bookingId].status = "CANCELLED"
    THEN [code |-> 400, error |-> "AlreadyCancelled"]
    ELSE Go

(* the write that leaves the bookedseats rows where they are *)
CancelWriteKeepingRows(bookingId, out) ==
    /\ Respond("cancel", out.code, out.error)
    /\ IF out.code = 200
       THEN /\ bookings' = [bookings EXCEPT ![bookingId] = out.row]
            /\ UNCHANGED bookedseats
       ELSE UNCHANGED <<bookings, bookedseats>>

(* the write that also stores the new fare as the booking's originalFare *)
CancelWriteRebasing(bookingId, out) ==
    /\ Respond("cancel", out.code, out.error)
    /\ IF out.code = 200
       THEN /\ bookings' = [bookings EXCEPT
                                ![bookingId] = [out.row EXCEPT !.originalFare = out.row.fare]]
            /\ bookedseats' = {r \in bookedseats :
                   ~(r.bookingId = bookingId /\ r.seatId \in out.cancelled)}
       ELSE UNCHANGED <<bookings, bookedseats>>

(* lines 2284-2298: DELETE FROM bookedseats, UPDATE bookings, COMMIT *)
CancelWrite(bookingId, out) ==
    /\ Respond("cancel", out.code, out.error)
    /\ IF out.code = 200
       THEN /\ bookings' = [bookings EXCEPT ![bookingId] = out.row]
            /\ bookedseats' = {r \in bookedseats :
                   ~(r.bookingId = bookingId /\ r.seatId \in out.cancelled)}
       ELSE UNCHANGED <<bookings, bookedseats>>

(* SELECT ... FOR UPDATE that waits for nobody *)
NoBookingLock(q, bookingId) == FALSE

(* connection q has read the Booking row FOR UPDATE and not yet ended its
   transaction *)
HoldsBookingLock(q, bookingId) ==
    proc[q].pc = "cancel_locked" /\ proc[q].bookingId = bookingId

(* the request served without another one in between *)
cancel(userId, bookingId, seatIds) ==
    /\ LET gate == CancelGate(DbView, userId, seatIds)
           check == CancelRowCheck(bookings, userId, bookingId)
       IN  IF gate.code # 0
           THEN Respond("cancel", gate.code, gate.error)
                /\ UNCHANGED <<bookings, bookedseats>>
           ELSE IF check.code # 0
           THEN Respond("cancel", check.code, check.error)
                /\ UNCHANGED <<bookings, bookedseats>>
           ELSE CancelWrite(bookingId,
                    CancelOutcome(DbView, bookings[bookingId], seatIds, now))
    /\ UNCHANGED <<now, settings, discounted_districts, routestops, schedules, subadmindistricts,
                   govtbeneficiaries, users, proc>>

(* the same request as the steps of its connection p *)
CancelBegin(p, userId, bookingId, seatIds) ==
    /\ proc[p].pc = "idle"
    /\ UNCHANGED <<now, settings, discounted_districts, routestops, schedules, subadmindistricts, bookings,
                   bookedseats, govtbeneficiaries, users>>
    /\ LET gate == CancelGate(DbView, userId, seatIds)
       IN  IF gate.code # 0
           THEN Respond("cancel", gate.code, gate.error) /\ UNCHANGED proc
           ELSE /\ proc' = [proc EXCEPT ![p] =
                       [pc |-> "cancel_tx", userId |-> userId, bookingId |-> bookingId,
                        seatIds |-> seatIds, snapshot |-> DbView]]
                /\ UNCHANGED resp

CancelLock(p) ==
    /\ proc[p].pc = "cancel_tx"
    /\ \A q \in Procs \ {p} : ~HoldsBookingLock(q, proc[p].bookingId)
    /\ LET check == CancelRowCheck(bookings, proc[p].userId, proc[p].bookingId)
       IN  IF check.code # 0
           THEN Respond("cancel", check.code, check.error) /\ Finish(p)
           ELSE /\ proc' = [proc EXCEPT ![p] =
                       [pc |-> "cancel_locked", userId |-> proc[p].userId,
                        bookingId |-> proc[p].bookingId, seatIds |-> proc[p].seatIds,
                        snapshot |-> proc[p].snapshot,
                        booking |-> bookings[proc[p].bookingId]]]
                /\ UNCHANGED resp
    /\ UNCHANGED <<now, settings, discounted_districts, routestops, schedules, subadmindistricts, bookings,
                   bookedseats, govtbeneficiaries, users>>

CancelFinish(p) ==
    /\ proc[p].pc = "cancel_locked"
    /\ Finish(p)
    /\ CancelWrite(proc[p].bookingId,
           CancelOutcome(proc[p].snapshot, proc[p].booking, proc[p].seatIds, now))
    /\ UNCHANGED <<now, settings, discounted_districts, routestops, schedules, subadmindistricts,
                   govtbeneficiaries, users>>

-----------------------------------------------------------------------------
(* RouteModel administration: POST /schedules/batch-upload and
   PUT /schedules/:id *)

(* requireSubAdminOrAdmin *)
IsSubAdminOrAdmin(userId) ==
    IsAuthenticated(userId) /\ users[userId].role \in {"ADMIN", "SUB_ADMIN"}

(* user.assignedDistricts || [], as authenticate attaches it *)
AssignedDistricts(userId) ==
    IF userId \in DOMAIN subadmindistricts THEN subadmindistricts[userId] ELSE {}

(* stops?.[0]?.stopName, "" for undefined *)
OriginDistrict(stops) == IF stops = <<>> THEN "" ELSE stops[1].stopName

(* the routestops rows of one schedule, stopOrder = index - 1 *)
StopRows(stops) ==
    [i \in 1..Len(stops) |-> [stopName |-> stops[i].stopName,
                              departureTime |-> stops[i].departureTime,
                              fare |-> stops[i].fareFromOrigin]]

ScheduleRow(busName, seatLayout, bookingEnabled) ==
    [busName |-> busName, seatLayout |-> seatLayout,
     bookingEnabled |-> IF bookingEnabled THEN "1" ELSE "0"]

(* lines 1667-1691: the role, the array and the districts of a sub-admin *)
BatchGate(userId, batch) ==
    IF ~IsSubAdminOrAdmin(userId) THEN [code |-> 403, error |-> "PermissionDenied"]
    ELSE IF batch = <<>> THEN [code |-> 400, error |-> "BadRequest"]
    ELSE IF users[userId].role = "SUB_ADMIN" /\ AssignedDistricts(userId) = {}
    THEN [code |-> 403, error |-> "Unauthorized"]
    ELSE IF /\ users[userId].role = "SUB_ADMIN"
            /\ \E i \in 1..Len(batch) :
                  \/ OriginDistrict(batch[i].stops) = ""
                  \/ OriginDistrict(batch[i].stops) \notin AssignedDistricts(userId)
    THEN [code |-> 403, error |-> "Unauthorized"]
    ELSE Go

(* the loop that keeps what it inserted before it met the duplicate *)
RECURSIVE BatchLoopKeepingEarlier(_, _, _, _, _, _)
BatchLoopKeepingEarlier(sch0, rs0, sch, rs, batch, uuids) ==
    IF batch = <<>> THEN [code |-> 201, error |-> "", schedules |-> sch, routestops |-> rs]
    ELSE LET schedule == Head(batch)
             scheduleId == IF schedule.id = "" THEN Head(uuids) ELSE schedule.id
         IN  IF scheduleId \in DOMAIN sch
             THEN [code |-> 409, error |-> "DuplicateSchedule",
                   schedules |-> sch, routestops |-> rs]
             ELSE BatchLoopKeepingEarlier(sch0, rs0,
                      (scheduleId :> ScheduleRow(schedule.busName, schedule.seatLayout,
                                                 schedule.bookingEnabled)) @@ sch,
                      (scheduleId :> StopRows(schedule.stops)) @@ rs,
                      Tail(batch),
                      IF schedule.id = "" THEN Tail(uuids) ELSE uuids)

(* lines 1693-1721: the transaction; sch0, rs0 are the tables at BEGIN, which
   ROLLBACK restores, and uuids the values uuidv4() returns in turn *)
RECURSIVE BatchLoop(_, _, _, _, _, _)
BatchLoop(sch0, rs0, sch, rs, batch, uuids) ==
    IF batch = <<>> THEN [code |-> 201, error |-> "", schedules |-> sch, routestops |-> rs]
    ELSE LET schedule == Head(batch)
             scheduleId == IF schedule.id = "" THEN Head(uuids) ELSE schedule.id
         IN  IF scheduleId \in DOMAIN sch
             THEN [code |-> 409, error |-> "DuplicateSchedule",
                   schedules |-> sch0, routestops |-> rs0]
             ELSE BatchLoop(sch0, rs0,
                      (scheduleId :> ScheduleRow(schedule.busName, schedule.seatLayout,
                                                 schedule.bookingEnabled)) @@ sch,
                      (scheduleId :> StopRows(schedule.stops)) @@ rs,
                      Tail(batch),
                      IF schedule.id = "" THEN Tail(uuids) ELSE uuids)

(* identifiers uuidv4() can return *)
FreshIds == {"U1"}

WithoutId(batch) == {i \in 1..Len(batch) : batch[i].id = ""}

(* the sequences of distinct unused identifiers for the schedules without id *)
UuidDraws(batch) ==
    IF WithoutId(batch) = {} THEN { <<>> }
    ELSE { <<u>> : u \in FreshIds \ DOMAIN schedules }

batchUploadSchedules(userId, batch) ==
    /\ Cardinality(WithoutId(batch)) <= 1
    /\ \E uuids \in UuidDraws(batch) :
          LET gate == BatchGate(userId, batch)
              out == BatchLoop(schedules, routestops, schedules, routestops, batch, uuids)
          IN  IF gate.code # 0
              THEN Respond("batchUpload", gate.code, gate.error)
                   /\ UNCHANGED <<schedules, routestops>>
              ELSE /\ Respond("batchUpload", out.code, out.error)
                   /\ schedules' = out.schedules
                   /\ routestops' = out.routestops
    /\ UNCHANGED <<now, settings, discounted_districts, subadmindistricts, bookings,
                   bookedseats, govtbeneficiaries, users, proc>>

(* lines 1731-1781 *)
updateSchedule(userId, id, body) ==
    /\ IF ~IsSubAdminOrAdmin(userId)
       THEN Respond("updateSchedule", 403, "PermissionDenied")
            /\ UNCHANGED <<schedules, routestops>>
       ELSE IF body.busName = "" \/ body.seatLayout = "" \/ body.stops = <<>>
       THEN Respond("updateSchedule", 400, "BadRequest")
            /\ UNCHANGED <<schedules, routestops>>
       ELSE IF users[userId].role = "SUB_ADMIN" /\ OriginDistrict(body.stops) = ""
       THEN Respond("updateSchedule", 400, "BadRequest")
            /\ UNCHANGED <<schedules, routestops>>
       ELSE IF /\ users[userId].role = "SUB_ADMIN"
               /\ OriginDistrict(body.stops) \notin AssignedDistricts(userId)
       THEN Respond("updateSchedule", 403, "Unauthorized")
            /\ UNCHANGED <<schedules, routestops>>
       ELSE IF id \notin DOMAIN schedules
       THEN Respond("updateSchedule", 404, "ScheduleNotFound")
            /\ UNCHANGED <<schedules, routestops>>
       ELSE /\ schedules' = [schedules EXCEPT
                                ![id] = ScheduleRow(body.busName, body.seatLayout,
                                                    body.bookingEnabled)]
            /\ routestops' = [routestops EXCEPT ![id] = StopRows(body.stops)]
            /\ Respond("updateSchedule", 200, "")
    /\ UNCHANGED <<now, settings, discounted_districts, subadmindistricts, bookings,
                   bookedseats, govtbeneficiaries, users, proc>>

(* PUT /schedules/:id as the steps of its connection p.  The rows it writes
   are held in proc[p] until COMMIT. *)

(* another connection has updated the schedules row of id and not ended its
   transaction: the UPDATE waits *)
HoldsScheduleLock(q, id) ==
    proc[q].pc \in {"edit_updated", "edit_insert"} /\ proc[q].id = id

(* lines 1731-1765: validation, BEGIN, the district check and the UPDATE *)
EditBegin(p, userId, id, body) ==
    /\ proc[p].pc = "idle"
    /\ \A q \in Procs \ {p} : ~HoldsScheduleLock(q, id)
    /\ IF ~IsSubAdminOrAdmin(userId)
       THEN Respond("updateSchedule", 403, "PermissionDenied") /\ UNCHANGED proc
       ELSE IF body.busName = "" \/ body.seatLayout = "" \/ body.stops = <<>>
       THEN Respond("updateSchedule", 400, "BadRequest") /\ UNCHANGED proc
       ELSE IF users[userId].role = "SUB_ADMIN" /\ OriginDistrict(body.stops) = ""
       THEN Respond("updateSchedule", 400, "BadRequest") /\ UNCHANGED proc
       ELSE IF /\ users[userId].role = "SUB_ADMIN"
               /\ OriginDistrict(body.stops) \notin AssignedDistricts(userId)
       THEN Respond("updateSchedule", 403, "Unauthorized") /\ UNCHANGED proc
       ELSE IF id \notin DOMAIN schedules
       THEN Respond("updateSchedule", 404, "ScheduleNotFound") /\ UNCHANGED proc
       ELSE /\ proc' = [proc EXCEPT ![p] =
                   [pc |-> "edit_updated", id |-> id, body |-> body,
                    working |-> routestops[id]]]
            /\ UNCHANGED resp
    /\ UNCHANGED <<now, settings, discounted_districts, routestops, schedules,
                   subadmindistricts, bookings, bookedseats, govtbeneficiaries, users>>

(* line 1767: DELETE FROM routestops WHERE scheduleId = ? *)
EditDelete(p) ==
    /\ proc[p].pc = "edit_updated"
    /\ proc' = [proc EXCEPT ![p].pc = "edit_insert", ![p].working = <<>>]
    /\ UNCHANGED <<now, settings, discounted_districts, routestops, schedules,
                   subadmindistricts, bookings, bookedseats, govtbeneficiaries, users, resp>>

(* lines 1771-1777: one pass of the INSERT loop *)
EditInsertStop(p) ==
    /\ proc[p].pc = "edit_insert"
    /\ Len(proc[p].working) < Len(proc[p].body.stops)
    /\ proc' = [proc EXCEPT ![p].working =
                   Append(@, StopRows(proc[p].body.stops)[Len(@) + 1])]
    /\ UNCHANGED <<now, settings, discounted_districts, routestops, schedules,
                   subadmindistricts, bookings, bookedseats, govtbeneficiaries, users, resp>>

(* lines 1779-1781: COMMIT *)
EditCommit(p) ==
    /\ proc[p].pc = "edit_insert"
    /\ Len(proc[p].working) = Len(proc[p].body.stops)
    /\ schedules' = [schedules EXCEPT
                        ![proc[p].id] = ScheduleRow(proc[p].body.busName,
                                                    proc[p].body.seatLayout,
                                                    proc[p].body.bookingEnabled)]
    /\ routestops' = [routestops EXCEPT ![proc[p].id] = proc[p].working]
    /\ Respond("updateSchedule", 200, "")
    /\ Finish(p)
    /\ UNCHANGED <<now, settings, discounted_districts, subadmindistricts, bookings,
                   bookedseats, govtbeneficiaries, users>>

(* lines 1783-1785: a query of the transaction fails; ROLLBACK and
   handleDBError *)
EditFail(p) ==
    /\ proc[p].pc \in {"edit_updated", "edit_insert"}
    /\ Respond("updateSchedule", 500, "DatabaseError")
    /\ Finish(p)
    /\ UNCHANGED <<now, settings, discounted_districts, routestops, schedules,
                   subadmindistricts, bookings, bookedseats, govtbeneficiaries, users>>

-----------------------------------------------------------------------------
(* RevenueAggregator: GET /analytics/revenue *)

(* lines 2791-2805: bookings JOIN JSON_TABLE(passengerDetails): one row per
   passenger of the paid bookings, of the given origins when filtered *)
RECURSIVE PassengerRows(_, _, _)
PassengerRows(bks, filtered, districts) ==
    IF bks = <<>> THEN <<>>
    ELSE LET b == Head(bks)
         IN  (IF /\ ~b.isFreeTicket
                 /\ (filtered => b.origin \in districts)
              THEN [i \in 1..Len(b.passengerDetails) |->
                       [type |-> b.passengerDetails[i].type,
                        fare |-> b.passengerDetails[i].fare,
                        status |-> b.passengerDetails[i].status]]
              ELSE <<>>)
             \o PassengerRows(Tail(bks), filtered, districts)

(* the status test that takes every passenger for a booked one *)
CountsAsBookedAlways(status) == TRUE

(* p.status IS NULL OR p.status = 'BOOKED' *)
CountsAsBooked(status) == status = Null \/ status = "BOOKED"

RECURSIVE SumFaresWhere(_, _, _)
SumFaresWhere(rows, type, booked) ==
    IF rows = <<>> THEN 0
    ELSE (IF /\ Head(rows).type = type
             /\ (IF booked THEN CountsAsBooked(Head(rows).status)
                 ELSE Head(rows).status = "CANCELLED")
          THEN Head(rows).fare ELSE 0)
         + SumFaresWhere(Tail(rows), type, booked)

(* the count that takes the booked passengers whichever status is asked for *)
CountWhereBooked(rows, type, booked) ==
    Cardinality({i \in 1..Len(rows) :
        rows[i].type = type /\ CountsAsBooked(rows[i].status)})

CountWhere(rows, type, booked) ==
    Cardinality({i \in 1..Len(rows) :
        /\ rows[i].type = type
        /\ (IF booked THEN CountsAsBooked(rows[i].status)
            ELSE rows[i].status = "CANCELLED")})

PassengerTypes == <<"NORMAL", "CHILD", "SENIOR">>

(* lines 2807-2815 and 2838: categoryQuery, GROUP BY p.type, and netRevenue *)
byCategory(rows) ==
    LET present == SelectSeq(PassengerTypes,
                             LAMBDA t : \E i \in 1..Len(rows) : rows[i].type = t)
    IN  [k \in 1..Len(present) |->
            LET grossRevenue == SumFaresWhere(rows, present[k], TRUE)
                refundedRevenue == SumFaresWhere(rows, present[k], FALSE)
            IN  [type |-> present[k],
                 grossRevenue |-> grossRevenue,
                 refundedRevenue |-> refundedRevenue,
                 bookedTickets |-> CountWhere(rows, present[k], TRUE),
                 cancelledTickets |-> CountWhere(rows, present[k], FALSE),
                 netRevenue |-> grossRevenue - refundedRevenue]]

EmptySummary ==
    [netRevenue |-> 0, grossRevenue |-> 0, refundedRevenue |-> 0,
     bookedTickets |-> 0, cancelledTickets |-> 0]

(* lines 2840-2846: byCategory.reduce *)
RECURSIVE summary(_, _)
summary(acc, categories) ==
    IF categories = <<>> THEN acc
    ELSE LET curr == Head(categories)
         IN  summary([grossRevenue |-> acc.grossRevenue + curr.grossRevenue,
                      refundedRevenue |-> acc.refundedRevenue + curr.refundedRevenue,
                      bookedTickets |-> acc.bookedTickets + curr.bookedTickets,
                      cancelledTickets |-> acc.cancelledTickets + curr.cancelledTickets,
                      netRevenue |-> acc.netRevenue + curr.netRevenue],
                     Tail(categories))

getRevenueAnalytics(userId) ==
    /\ IF ~(IsAuthenticated(userId) /\ users[userId].role \in {"ADMIN", "SUB_ADMIN"})
       THEN resp' = [op |-> "revenue", code |-> 403, error |-> "PermissionDenied",
                     userId |-> userId, summary |-> EmptySummary, byCategory |-> <<>>]
       ELSE LET isSubAdmin == users[userId].role = "SUB_ADMIN"
                assignedDistricts ==
                    IF isSubAdmin /\ userId \in DOMAIN subadmindistricts
                    THEN subadmindistricts[userId] ELSE {}
            IN  IF isSubAdmin /\ assignedDistricts = {}
                THEN resp' = [op |-> "revenue", code |-> 200, error |-> "",
                              userId |-> userId, summary |-> EmptySummary,
                              byCategory |-> <<>>]
                ELSE LET rows == PassengerRows(bookings, assignedDistricts # {},
                                               assignedDistricts)
                     IN  resp' = [op |-> "revenue", code |-> 200, error |-> "",
                                  userId |-> userId,
                                  summary |-> summary(EmptySummary, byCategory(rows)),
                                  byCategory |-> byCategory(rows)]
    /\ UNCHANGED <<now, settings, discounted_districts, routestops, schedules,
                   subadmindistricts, bookings, bookedseats, govtbeneficiaries, users, proc>>

-----------------------------------------------------------------------------
(* Administration and accounts *)

(* requireAdmin *)
IsAdmin(userId) == IsAuthenticated(userId) /\ users[userId].role = "ADMIN"

(* PUT /settings: one autocommitted upsert *)
PutSetting(userId, key, value) ==
    /\ IF ~IsAdmin(userId)
       THEN Respond("putSetting", 403, "AdminRequired") /\ UNCHANGED settings
       ELSE /\ settings' = [settings EXCEPT ![key] = value]
            /\ Respond("putSetting", 200, "")
    /\ UNCHANGED <<now, discounted_districts, routestops, schedules, subadmindistricts, bookings, bookedseats,
                   govtbeneficiaries, users, proc>>

(* PUT /discounts/districts: TRUNCATE and re-insert *)
PutDiscountDistricts(userId, districts) ==
    /\ IF ~IsAdmin(userId)
       THEN Respond("putDistricts", 403, "AdminRequired") /\ UNCHANGED discounted_districts
       ELSE /\ discounted_districts' = districts
            /\ Respond("putDistricts", 200, "")
    /\ UNCHANGED <<now, settings, routestops, schedules, subadmindistricts, bookings, bookedseats,
                   govtbeneficiaries, users, proc>>

(* lines 1556-1564: defaultSettings *)
defaultSettings ==
    [k \in SettingKeys |->
        CASE k = "childDiscountPercentage" -> "40"
          [] k = "seniorDiscountPercentage" -> "50"
          [] OTHER -> "false"]

(* GET /settings/:key, open to every caller: a stored row is returned; a
   missing row of a known key is inserted with its default; 404 otherwise *)
getSetting(key) ==
    /\ IF key \in SettingKeys /\ settings[key] # NoRow
       THEN Respond("getSetting", 200, "") /\ UNCHANGED settings
       ELSE IF key \in DOMAIN defaultSettings
       THEN /\ settings' = [settings EXCEPT ![key] = defaultSettings[key]]
            /\ Respond("getSetting", 200, "")
       ELSE Respond("getSetting", 404, "SettingNotFound") /\ UNCHANGED settings
    /\ UNCHANGED <<now, discounted_districts, routestops, schedules, subadmindistricts, bookings, bookedseats,
                   govtbeneficiaries, users, proc>>

NewUserIds == <<"n1", "n2">>

(* lines 2485-2541: one pass of the loop over the uploaded beneficiaries;
   st = [govtbeneficiaries, users] as the transaction has written them *)
BulkStep(st, bene) ==
    IF bene.govtExamRegistrationNumber = "" \/ bene.phone = "" \/ bene.fullName = ""
    THEN st
    ELSE
    LET reg == bene.govtExamRegistrationNumber
        gb == [r \in DOMAIN st.govtbeneficiaries \cup {reg} |->
                  IF r = reg
                  THEN [exists |-> TRUE, phone |-> bene.phone, ticketClaimed |-> FALSE]
                  ELSE st.govtbeneficiaries[r]]
        us == st.users
        existingBeneUsers == {u \in DOMAIN us : us[u].govtExamRegistrationNumber = reg}
        usersWithPhone == {u \in DOMAIN us : us[u].phone = bene.phone}
        free == {i \in 1..Len(NewUserIds) : NewUserIds[i] \notin DOMAIN us}
    IN  IF existingBeneUsers # {}
        THEN LET userToUpdate == CHOOSE u \in existingBeneUsers : TRUE
             IN  IF us[userToUpdate].phone # bene.phone
                    /\ usersWithPhone \ {userToUpdate} # {}
                 THEN [govtbeneficiaries |-> gb, users |-> us]
                 ELSE [govtbeneficiaries |-> gb,
                       users |-> [us EXCEPT ![userToUpdate].phone = bene.phone]]
        ELSE IF usersWithPhone # {}
        THEN LET userToConvert == CHOOSE u \in usersWithPhone : TRUE
             IN  IF us[userToConvert].govtExamRegistrationNumber # Null
                 THEN [govtbeneficiaries |-> gb, users |-> us]
                 ELSE [govtbeneficiaries |-> gb,
                       users |-> [us EXCEPT
                                     ![userToConvert].govtExamRegistrationNumber = reg]]
        ELSE IF free = {} THEN [govtbeneficiaries |-> gb, users |-> us]
        ELSE LET userId == NewUserIds[CHOOSE i \in free : \A j \in free : i <= j]
             IN  [govtbeneficiaries |-> gb,
                  users |-> [u \in DOMAIN us \cup {userId} |->
                                IF u = userId
                                THEN [role |-> "USER", phone |-> bene.phone,
                                      govtExamRegistrationNumber |-> reg]
                                ELSE us[u]]]

RECURSIVE BulkLoop(_, _)
BulkLoop(st, beneficiaries) ==
    IF beneficiaries = <<>> THEN st
    ELSE BulkLoop(BulkStep(st, Head(beneficiaries)), Tail(beneficiaries))

(* POST /users/bulk-beneficiaries: one transaction; its upsert waits for a
   beneficiary row another transaction has locked *)
BulkBeneficiaries(userId, beneficiaries) ==
    /\ \A i \in 1..Len(beneficiaries), q \in Procs :
           ~HoldsBeneficiaryLock(q, beneficiaries[i].govtExamRegistrationNumber)
    /\ IF ~IsAdmin(userId)
       THEN /\ Respond("bulkBeneficiaries", 403, "AdminRequired")
            /\ UNCHANGED <<govtbeneficiaries, users>>
       ELSE IF beneficiaries = <<>>
       THEN /\ Respond("bulkBeneficiaries", 400, "BadRequest")
            /\ UNCHANGED <<govtbeneficiaries, users>>
       ELSE LET st == BulkLoop([govtbeneficiaries |-> govtbeneficiaries, users |-> users],
                               beneficiaries)
            IN  /\ govtbeneficiaries' = st.govtbeneficiaries
                /\ users' = st.users
                /\ Respond("bulkBeneficiaries", 201, "")
    /\ UNCHANGED <<now, settings, discounted_districts, routestops, schedules, subadmindistricts, bookings,
                   bookedseats, proc>>

(* PUT /users/profile/:id with a phone: users.phone, then the phone of the
   beneficiary row joined on the user's registration number *)
UpdateProfile(userId, id, phone) ==
    /\ \A q \in Procs : IsAuthenticated(userId) =>
           ~HoldsBeneficiaryLock(q, users[userId].govtExamRegistrationNumber)
    /\ IF ~IsAuthenticated(userId)
       THEN Respond("updateProfile", 401, "AuthRequired")
            /\ UNCHANGED <<govtbeneficiaries, users>>
       ELSE IF userId # id
       THEN Respond("updateProfile", 403, "Unauthorized")
            /\ UNCHANGED <<govtbeneficiaries, users>>
       ELSE IF \E u \in DOMAIN users \ {id} : users[u].phone = phone
       THEN Respond("updateProfile", 409, "PhoneInUse")
            /\ UNCHANGED <<govtbeneficiaries, users>>
       ELSE /\ users' = [users EXCEPT ![id].phone = phone]
            /\ govtbeneficiaries' =
                   [r \in DOMAIN govtbeneficiaries |->
                       IF r = users[id].govtExamRegistrationNumber
                          /\ govtbeneficiaries[r].exists
                       THEN [govtbeneficiaries[r] EXCEPT !.phone = phone]
                       ELSE govtbeneficiaries[r]]
            /\ Respond("updateProfile", 200, "")
    /\ UNCHANGED <<now, settings, discounted_districts, routestops, schedules, subadmindistricts, bookings,
                   bookedseats, proc>>

(* The instants at which the model looks at the clock: the hour of
   deployment, the hour the cancellation window of a booking made then
   closes (and the last hour a booking made then is live the next day is 32),
   and the first hour at which a booking made at 8 has expired *)
TimePoints == {8, 9, 33}

Tick(t) ==
    /\ t \in TimePoints
    /\ t > now
    /\ now' = t
    /\ UNCHANGED <<settings, discounted_districts, routestops, schedules, subadmindistricts, bookings, bookedseats,
                   govtbeneficiaries, users, proc, resp>>

-----------------------------------------------------------------------------
(* Requests of the model *)

Normal(seatId) ==
    [seatId |-> seatId, type |-> "NORMAL", fullName |-> "Asha", aadhaarNumber |-> ""]
Senior(seatId) ==
    [seatId |-> seatId, type |-> "SENIOR", fullName |-> "Asha",
     aadhaarNumber |-> "123456789012"]
Child(seatId) ==
    [seatId |-> seatId, type |-> "CHILD", fullName |-> "Asha",
     aadhaarNumber |-> "123456789012"]

CancelSeatLists ==
    { <<"A1">>, <<"A2">>, <<"A1", "A2">>, <<"A1", "A1">>, <<"B9">> }

Uploads ==
    { << [govtExamRegistrationNumber |-> "R1", phone |-> "ph1", fullName |-> "Asha"] >>,
      << [govtExamRegistrationNumber |-> "R1", phone |-> "ph3", fullName |-> ""] >>,
      <<>> }

(* The deployment in service: the administrator has switched the features on
   and made Rohtak a discount district *)
InitOperating ==
    /\ now = 8
    /\ settings = [k \in SettingKeys |->
                      IF k \in {"isBookingSystemOnline", "isFreeBookingEnabled", "isCancellationEnabled",
                                "isDiscountSystemEnabled"} THEN "true" ELSE NoRow]
    /\ discounted_districts = {"Rohtak"}
    /\ routestops = [id \in {"S1"} |-> InitialRoute]
    /\ schedules = [id \in {"S1"} |-> InitialSchedule]
    /\ subadmindistricts = InitialAssignments
    /\ bookings = <<>>
    /\ bookedseats = {}
    /\ govtbeneficiaries = [r \in Regs |-> NoBeneficiary]
    /\ users = InitialUsers
    /\ proc = [p \in Procs |-> Idle]
    /\ resp = [op |-> "", code |-> 0, error |-> ""]

(* bookings by u1: one seat on two segments that overlap, two seats of
   different fares, a seat listed twice, and a segment that runs backwards *)
PaidInputs ==
    { <<"u1", <<Normal("A1")>>, <<"Rohtak", "Panipat">> >>,
      <<"u1", <<Normal("A1")>>, <<" gohana ", "Panipat">> >>,
      <<"u1", <<Child("A1"), Normal("A2")>>, <<"Rohtak", "Panipat">> >>,
      <<"u1", <<Normal("A1"), Normal("A1")>>, <<"Rohtak", "Panipat">> >>,
      <<"u1", <<Normal("A1")>>, <<"Panipat", "Rohtak">> >> }

CancelInputs ==
    ({"u1"} \X (1..(MaxBookings + 1)) \X CancelSeatLists)
    \cup ({"u2", NoUser} \X {1} \X {<<"A1">>})

FreeInputs ==
    { <<"u1", <<"A2">>, <<"Rohtak", "Panipat">>, "R1", "ph1">>,
      <<"u2", <<"A1">>, <<"Karnal", "Panipat">>, "R1", "ph1">>,
      <<"u1", <<"A2">>, <<"Rohtak", "Panipat">>, "R1", "ph3">>,
      <<"u1", <<"A1", "A2">>, <<"Rohtak", "Panipat">>, "R1", "ph1">>,
      <<"u1", <<"A2">>, <<"Rohtak", "Panipat">>, "R9", "ph1">> }

(* The paid ledger: bookings and cancellations served one after another, the
   administrator's cancellation toggle and the clock in between *)
Next ==
    \/ \E in \in PaidInputs : bookPaid(in[1], "S1", in[2], in[3][1], in[3][2])
    \/ \E in \in CancelInputs : cancel(in[1], in[2], in[3])
    \/ \E userId \in {"admin", "u1"}, value \in {"true", "false"} :
           PutSetting(userId, "isCancellationEnabled", value)
    \/ \E t \in TimePoints : Tick(t)

Spec == InitOperating /\ [][Next]_vars

-----------------------------------------------------------------------------
(* The free-ticket desk: claims, cancellations, uploads of the beneficiary
   list and profile edits, served one after another *)

TicketCancelInputs == {"u1", "u2"} \X (1..MaxBookings) \X { <<"A1">>, <<"A2">> }

ProfileInputs ==
    { <<"u1", "u1", "ph3">>, <<"u1", "u1", "ph1">>, <<"u2", "u2", "ph1">>,
      <<"u1", "u2", "ph3">>, <<NoUser, "u1", "ph3">> }

NextTickets ==
    \/ \E in \in FreeInputs :
           bookFree(in[1], "S1", in[2], in[3][1], in[3][2], in[4], in[5])
    \/ \E in \in TicketCancelInputs : cancel(in[1], in[2], in[3])
    \/ \E userId \in {"admin", "u1"}, beneficiaries \in Uploads :
           BulkBeneficiaries(userId, beneficiaries)
    \/ \E in \in ProfileInputs : UpdateProfile(in[1], in[2], in[3])

SpecTickets == InitOperating /\ [][NextTickets]_vars

-----------------------------------------------------------------------------
(* Two connections booking paid seats at the same time *)

RacePaidInputs ==
    {"u1", "u2"} \X {<<Normal("A1")>>, <<Child("A1"), Normal("A2")>>}
                 \X {<<"Rohtak", "Panipat">>, <<" gohana ", "Panipat">>,
                     <<"Rohtak", "Gohana">>}

NextPaidRace ==
    \/ \E p \in Procs, in \in RacePaidInputs :
           PaidBegin(p, in[1], "S1", in[2], in[3][1], in[3][2])
    \/ \E p \in Procs : PaidCommit(p)

SpecPaidRace == InitOperating /\ [][NextPaidRace]_vars

-----------------------------------------------------------------------------
(* Two connections claiming free tickets at the same time.  The beneficiary
   list has been uploaded: R1 with phone ph1, not yet claimed. *)

InitFreeRace ==
    /\ now = 8
    /\ settings = [k \in SettingKeys |->
                      IF k \in {"isBookingSystemOnline", "isFreeBookingEnabled", "isCancellationEnabled",
                                "isDiscountSystemEnabled"} THEN "true" ELSE NoRow]
    /\ discounted_districts = {"Rohtak"}
    /\ routestops = [id \in {"S1"} |-> InitialRoute]
    /\ schedules = [id \in {"S1"} |-> InitialSchedule]
    /\ subadmindistricts = InitialAssignments
    /\ bookings = <<>>
    /\ bookedseats = {}
    /\ govtbeneficiaries =
           [r \in Regs |-> [exists |-> TRUE, phone |-> "ph1", ticketClaimed |-> FALSE]]
    /\ users = InitialUsers
    /\ proc = [p \in Procs |-> Idle]
    /\ resp = [op |-> "", code |-> 0, error |-> ""]

(* the record R1/ph1 presented by either user for either seat and segment, and
   a request with the wrong phone *)
RaceFreeInputs ==
    ({"u1", "u2"} \X {<<"A1">>, <<"A2">>}
                  \X {<<"Rohtak", "Panipat">>, <<"Gohana", "Panipat">>}
                  \X {"R1"} \X {"ph1"})
    \cup {<<"u1", <<"A1">>, <<"Rohtak", "Panipat">>, "R1", "ph3">>}

NextFreeRace ==
    \/ \E p \in Procs, in \in RaceFreeInputs :
           FreeBegin(p, in[1], "S1", in[2], in[3][1], in[3][2], in[4], in[5])
    \/ \E p \in Procs : FreeLock(p)
    \/ \E p \in Procs : FreeCommit(p)

SpecFreeRace == InitFreeRace /\ [][NextFreeRace]_vars

-----------------------------------------------------------------------------
(* FareEngine on its own: paid bookings under every discount configuration
   the administrator can have stored, on a route whose fares rise and on one
   whose fares fall *)

FallingRoute ==
    << [stopName |-> "Rohtak", departureTime |-> 10, fare |-> 100],
       [stopName |-> "Gohana", departureTime |-> 11, fare |-> 50],
       [stopName |-> "Panipat", departureTime |-> 12, fare |-> 0] >>

FareToggles == {"true", "false", NoRow}
ChildPercentages == {NoRow, "", "25"}
SeniorPercentages == {NoRow, "0"}
DistrictSets == { {}, {"Rohtak"}, {"Gohana"} }

InitFare ==
    /\ now = 8
    /\ \E toggle \in FareToggles, child \in ChildPercentages, senior \in SeniorPercentages :
          settings = [k \in SettingKeys |->
                         CASE k = "isDiscountSystemEnabled" -> toggle
                           [] k = "childDiscountPercentage" -> child
                           [] k = "seniorDiscountPercentage" -> senior
                           [] OTHER -> "true"]
    /\ discounted_districts \in DistrictSets
    /\ routestops \in {[id \in {"S1"} |-> InitialRoute], [id \in {"S1"} |-> FallingRoute]}
    /\ schedules = [id \in {"S1"} |-> InitialSchedule]
    /\ subadmindistricts = InitialAssignments
    /\ bookings = <<>>
    /\ bookedseats = {}
    /\ govtbeneficiaries = [r \in Regs |-> NoBeneficiary]
    /\ users = InitialUsers
    /\ proc = [p \in Procs |-> Idle]
    /\ resp = [op |-> "", code |-> 0, error |-> ""]

FareInputs ==
    { <<"u1", <<Child("A1"), Senior("A2"), Normal("A3")>>, <<"Rohtak", "Panipat">> >>,
      <<"u1", <<Normal("A1")>>, <<" gohana ", "Panipat">> >>,
      <<"u2", <<Senior("A1")>>, <<"Rohtak", "Gohana">> >> }

NextFare == \E in \in FareInputs : bookPaid(in[1], "S1", in[2], in[3][1], in[3][2])

SpecFare == InitFare /\ [][NextFare]_vars

-----------------------------------------------------------------------------
(* The cancellation window: bookings made before, at and after the time of day
   their stop departs, cancelled on either side of the cutoff *)

WindowTimes == {8, 9, 10, 11, 32, 33}

WindowTick(t) ==
    /\ t \in WindowTimes
    /\ t > now
    /\ now' = t
    /\ UNCHANGED <<settings, discounted_districts, routestops, schedules, subadmindistricts,
                   bookings, bookedseats, govtbeneficiaries, users, proc, resp>>

WindowPaidInputs ==
    { <<"u1", <<Normal("A1")>>, <<"Rohtak", "Panipat">> >>,
      <<"u1", <<Normal("A2")>>, <<" gohana ", "Panipat">> >> }

WindowCancelInputs == {"u1"} \X (1..MaxBookings) \X { <<"A1">>, <<"A2">> }

NextWindow ==
    \/ \E in \in WindowPaidInputs : bookPaid(in[1], "S1", in[2], in[3][1], in[3][2])
    \/ \E in \in WindowCancelInputs : cancel(in[1], in[2], in[3])
    \/ \E t \in WindowTimes : WindowTick(t)

SpecWindow == InitOperating /\ [][NextWindow]_vars

-----------------------------------------------------------------------------
(* The feature toggles: the administrator switches them while users book and
   cancel; the schedule was uploaded with its booking flag on or off *)

ToggleKeys == {"isBookingSystemOnline", "isFreeBookingEnabled", "isCancellationEnabled"}

InitToggles ==
    /\ now = 8
    /\ settings = [k \in SettingKeys |->
                      IF k \in ToggleKeys \cup {"isDiscountSystemEnabled"}
                      THEN "true" ELSE NoRow]
    /\ discounted_districts = {"Rohtak"}
    /\ routestops = [id \in {"S1"} |-> InitialRoute]
    /\ \E flag \in {"1", "0"} :
          schedules = [id \in {"S1"} |-> [InitialSchedule EXCEPT !.bookingEnabled = flag]]
    /\ subadmindistricts = InitialAssignments
    /\ bookings = <<>>
    /\ bookedseats = {}
    /\ govtbeneficiaries =
           [r \in Regs |-> [exists |-> TRUE, phone |-> "ph1", ticketClaimed |-> FALSE]]
    /\ users = InitialUsers
    /\ proc = [p \in Procs |-> Idle]
    /\ resp = [op |-> "", code |-> 0, error |-> ""]

TogglePaidInputs == { <<"u1", <<Normal("A1")>>, <<"Rohtak", "Panipat">> >> }
ToggleFreeInputs == { <<"u1", <<"A2">>, <<"Rohtak", "Panipat">>, "R1", "ph1">> }
ToggleCancelInputs == {"u1"} \X (1..MaxBookings) \X { <<"A1">>, <<"A2">> }

NextToggles ==
    \/ \E in \in TogglePaidInputs : bookPaid(in[1], "S1", in[2], in[3][1], in[3][2])
    \/ \E in \in ToggleFreeInputs :
           bookFree(in[1], "S1", in[2], in[3][1], in[3][2], in[4], in[5])
    \/ \E in \in ToggleCancelInputs : cancel(in[1], in[2], in[3])
    \/ \E key \in ToggleKeys, value \in {"true", "false"} : PutSetting("admin", key, value)

SpecToggles == InitToggles /\ [][NextToggles]_vars

-----------------------------------------------------------------------------
(* Passenger validation: paid bookings whose passenger has a blank name or a
   document number that is missing, short, or twelve characters with a letter *)

PassengerNames == {"Asha", "", " "}
DocumentNumbers == {"", "12345678901", "123456789012", "12345678901x"}

PassengerInputs ==
    { <<"u1", << [seatId |-> seatId, type |-> type, fullName |-> name,
                  aadhaarNumber |-> doc] >>, <<"Rohtak", "Panipat">> >> :
        seatId \in {"A1", "A2"}, type \in {"NORMAL", "CHILD", "SENIOR"},
        name \in PassengerNames, doc \in DocumentNumbers }

PassengerCancelInputs == {"u1"} \X (1..MaxBookings) \X { <<"A1">> }

NextPassengers ==
    \/ \E in \in PassengerInputs : bookPaid(in[1], "S1", in[2], in[3][1], in[3][2])
    \/ \E in \in PassengerCancelInputs : cancel(in[1], in[2], in[3])
    \/ \E value \in {"true", "false"} : PutSetting("admin", "isDiscountSystemEnabled", value)

SpecPassengers == InitOperating /\ [][NextPassengers]_vars

-----------------------------------------------------------------------------
(* Schedule administration: the administrator, the sub-admin of Rohtak and a
   plain user upload batches and edit schedules *)

KarnalRoute ==
    << [stopName |-> "Karnal", departureTime |-> 9, fareFromOrigin |-> 0],
       [stopName |-> "Panipat", departureTime |-> 10, fareFromOrigin |-> 40] >>

RohtakShort ==
    << [stopName |-> "Rohtak", departureTime |-> 10, fareFromOrigin |-> 0],
       [stopName |-> "Panipat", departureTime |-> 12, fareFromOrigin |-> 90] >>

UploadedSchedule(id, stops) ==
    [id |-> id, busName |-> "Express", seatLayout |-> "2x2", bookingEnabled |-> TRUE,
     stops |-> stops]

(* one schedule, two new ones, a new one followed by one that is stored, the
   same id twice, a schedule without id, and no schedule *)
Batches ==
    { << UploadedSchedule("S2", KarnalRoute) >>,
      << UploadedSchedule("S3", RohtakShort) >>,
      << UploadedSchedule("S3", RohtakShort), UploadedSchedule("S2", KarnalRoute) >>,
      << UploadedSchedule("S3", RohtakShort), UploadedSchedule("S1", RohtakShort) >>,
      << UploadedSchedule("S2", RohtakShort), UploadedSchedule("S2", KarnalRoute) >>,
      << UploadedSchedule("", RohtakShort) >>,
      <<>> }

BatchInputs == {"admin", "sub1", "u1"} \X Batches

EditBodies ==
    { [busName |-> "Express", seatLayout |-> "2x2", bookingEnabled |-> enabled,
       stops |-> stops] : enabled \in BOOLEAN, stops \in {KarnalRoute, RohtakShort} }
    \cup { [busName |-> "Express", seatLayout |-> "2x2", bookingEnabled |-> TRUE,
            stops |-> <<>>] }

EditInputs == {"admin", "sub1", "u1"} \X {"S1", "S2", "S9"} \X EditBodies

NextSchedules ==
    \/ \E in \in BatchInputs : batchUploadSchedules(in[1], in[2])
    \/ \E in \in EditInputs : updateSchedule(in[1], in[2], in[3])

SpecSchedules == InitOperating /\ [][NextSchedules]_vars

-----------------------------------------------------------------------------
(* The revenue report over ledgers with paid and free bookings, discounted and
   full fares, and cancelled passengers *)

RevenuePaidInputs ==
    { <<"u1", <<Child("A1"), Normal("A2")>>, <<"Rohtak", "Panipat">> >>,
      <<"u2", <<Senior("A1"), Normal("A3")>>, <<" gohana ", "Panipat">> >> }

RevenueFreeInputs == { <<"u1", <<"A4">>, <<"Rohtak", "Panipat">>, "R1", "ph1">> }

RevenueCancelInputs ==
    {"u1", "u2"} \X (1..MaxBookings) \X { <<"A1">>, <<"A2">>, <<"A3">> }

NextRevenue ==
    \/ \E in \in RevenuePaidInputs : bookPaid(in[1], "S1", in[2], in[3][1], in[3][2])
    \/ \E in \in RevenueFreeInputs :
           bookFree(in[1], "S1", in[2], in[3][1], in[3][2], in[4], in[5])
    \/ \E in \in RevenueCancelInputs : cancel(in[1], in[2], in[3])
    \/ \E userId \in {"admin", "sub1", "u1"} : getRevenueAnalytics(userId)

SpecRevenue == InitFreeRace /\ [][NextRevenue]_vars

-----------------------------------------------------------------------------
(* Cancel requests that name seats the booking does not hold, seats already
   cancelled, and a seat twice *)

SkipPaidInputs ==
    { <<"u1", <<Child("A1"), Normal("A2")>>, <<"Rohtak", "Panipat">> >>,
      <<"u1", <<Normal("A1")>>, <<" gohana ", "Panipat">> >>,
      <<"u2", <<Normal("A2")>>, <<"Rohtak", "Gohana">> >> }

SkipCancelInputs ==
    {"u1"} \X (1..MaxBookings)
           \X { <<"A1">>, <<"A2", "A2">>, <<"B9">>, <<"B9", "A1", "A2">> }

NextSkip ==
    \/ \E in \in SkipPaidInputs : bookPaid(in[1], "S1", in[2], in[3][1], in[3][2])
    \/ \E in \in SkipCancelInputs : cancel(in[1], in[2], in[3])

SpecSkip == InitOperating /\ [][NextSkip]_vars

-----------------------------------------------------------------------------
(* Two connections cancelling seats of the same booking at the same time *)

RaceBookedInputs ==
    { <<"u1", <<Child("A1"), Normal("A2")>>, <<"Rohtak", "Panipat">> >>,
      <<"u1", <<Normal("A1"), Normal("A1")>>, <<"Rohtak", "Panipat">> >> }

RaceCancelInputs == {"u1"} \X (1..MaxBookings) \X { <<"A1">>, <<"A2">>, <<"A1", "A2">> }

NextCancelRace ==
    \/ \E in \in RaceBookedInputs : bookPaid(in[1], "S1", in[2], in[3][1], in[3][2])
    \/ \E p \in Procs, in \in RaceCancelInputs : CancelBegin(p, in[1], in[2], in[3])
    \/ \E p \in Procs : CancelLock(p)
    \/ \E p \in Procs : CancelFinish(p)

SpecCancelRace == InitOperating /\ [][NextCancelRace]_vars

-----------------------------------------------------------------------------
(* SegmentAvailability on its own: the seats endpoint asked about stored
   occupancies of every shape *)

MaxStored == 2

(* GET /bookings/seats/:scheduleId: reads only; the reply carries the query
   it answers *)
getSeats(scheduleId, userOrigin, userDestination) ==
    /\ LET out == getBookedSeatsForSegment(DbView, bookings, bookedseats, now,
                                           scheduleId, userOrigin, userDestination)
       IN  resp' = [op |-> "getSeats", code |-> out.code, error |-> "",
                    seats |-> out.seats, scheduleId |-> scheduleId,
                    origin |-> userOrigin, destination |-> userDestination]
    /\ UNCHANGED <<now, settings, discounted_districts, routestops, schedules, subadmindistricts, bookings,
                   bookedseats, govtbeneficiaries, users, proc>>

(* Segments as the bookings table can hold them.  POST /bookings/free stores
   the origin and destination of the request unchecked, so a stored segment may
   run backwards or name a stop the route does not have. *)
StoredSegments ==
    { <<"Rohtak", "Gohana">>, <<"Gohana", "Panipat">>, <<"Rohtak", "Panipat">>,
      <<"Panipat", "Rohtak">>, <<"Karnal", "Panipat">> }

(* booked at hour 8 or at hour 9 *)
StoredDates == {8, 9}

(* hour 32, the last at which a booking of hour 8 is live, and hour 33, at
   which it has expired and a booking of hour 9 is live for the last time *)
QueryTimes == {32, 33}

StoredTickets == StoredSegments \X StoredDates \X {"A1", "A2"}

SeatQueries ==
    ({"S1"} \X { <<"Rohtak", "Gohana">>, <<"Gohana", "Panipat">>, <<"Rohtak", "Panipat">>,
                 <<" Rohtak", "gohana">>, <<"Panipat", "Rohtak">>, <<"Karnal", "Panipat">>,
                 <<"", "Panipat">> })
    \cup ({"S9"} \X { <<"Rohtak", "Panipat">> })

InitAvail ==
    /\ now \in QueryTimes
    /\ settings = [k \in SettingKeys |-> NoRow]
    /\ discounted_districts = {}
    /\ routestops = [id \in {"S1"} |-> InitialRoute]
    /\ schedules = [id \in {"S1"} |-> InitialSchedule]
    /\ subadmindistricts = InitialAssignments
    /\ \E n \in 0..MaxStored : \E tickets \in [1..n -> StoredTickets] :
          /\ bookings = [i \in 1..n |->
                            FreeBookingRow("u1", "S1", tickets[i][1][1], tickets[i][1][2],
                                           "R1", tickets[i][2])]
          /\ bookedseats = UNION {SeatRows(i, <<tickets[i][3]>>, tickets[i][1][1],
                                           tickets[i][1][2]) : i \in 1..n}
    /\ govtbeneficiaries = [r \in Regs |-> NoBeneficiary]
    /\ users = InitialUsers
    /\ proc = [p \in Procs |-> Idle]
    /\ resp = [op |-> "", code |-> 0, error |-> ""]

NextAvail == \E q \in SeatQueries : getSeats(q[1], q[2][1], q[2][2])

SpecAvail == InitAvail /\ [][NextAvail]_vars

-----------------------------------------------------------------------------
(* Schedule edits racing availability queries and bookings *)

EditRaceBodies ==
    { [busName |-> "Express", seatLayout |-> "2x2", bookingEnabled |-> TRUE,
       stops |-> KarnalRoute],
      [busName |-> "Ordinary", seatLayout |-> "2x3", bookingEnabled |-> FALSE,
       stops |-> RohtakShort] }

EditRaceInputs == {"admin", "u1"} \X {"S1", "S9"} \X EditRaceBodies

EditRacePaidInputs == { <<"u1", <<Normal("A1")>>, <<"Rohtak", "Panipat">> >> }

EditRaceQueries == { <<"S1", <<"Rohtak", "Panipat">> >>, <<"S1", <<"Karnal", "Panipat">> >> }

NextEditRace ==
    \/ \E p \in Procs, in \in EditRaceInputs : EditBegin(p, in[1], in[2], in[3])
    \/ \E p \in Procs : EditDelete(p)
    \/ \E p \in Procs : EditInsertStop(p)
    \/ \E p \in Procs : EditCommit(p)
    \/ \E p \in Procs : EditFail(p)
    \/ \E q \in EditRaceQueries : getSeats(q[1], q[2][1], q[2][2])
    \/ \E in \in EditRacePaidInputs : bookPaid(in[1], "S1", in[2], in[3][1], in[3][2])

SpecEditRace == InitOperating /\ [][NextEditRace]_vars

BookingIds == 1..Len(bookings)

(* the stop orders a stored stop name resolves to on the current route *)
OrderOnRoute(scheduleId, name) ==
    LET schedule == fetchAndAssembleSchedules(DbView, scheduleId)
    IN  IF ~schedule.found THEN NoOrder
        ELSE StopOrderOf(schedule.fullRouteStops, Normalize(name))

(* max(o1, o2) < min(d1, d2), spelt out *)
Overlap(o1, d1, o2, d2) ==
    (IF o1 >= o2 THEN o1 ELSE o2) < (IF d1 <= d2 THEN d1 ELSE d2)

(* the seats that, by the stored rows, have a live occupancy whose resolved
   segment overlaps [reqO, reqD) *)
SeatsWithOverlap(scheduleId, reqO, reqD) ==
    {r.seatId : r \in {x \in bookedseats :
        /\ bookings[x.bookingId].scheduleId = scheduleId
        /\ now - bookings[x.bookingId].bookingDate <= LiveWindowHours
        /\ OrderOnRoute(scheduleId, bookings[x.bookingId].origin) # NoOrder
        /\ OrderOnRoute(scheduleId, bookings[x.bookingId].destination) # NoOrder
        /\ Overlap(reqO, reqD,
                   OrderOnRoute(scheduleId, bookings[x.bookingId].origin),
                   OrderOnRoute(scheduleId, bookings[x.bookingId].destination))}}

(* C4: for a valid requested segment (both stops resolve, reqO < reqD) the
   seats endpoint answers with exactly the seat ids that have a non-expired
   occupancy whose resolved segment satisfies max(reqO, occO) < min(reqD,
   occD); touching and unresolved occupancies contribute nothing. *)
C4_UnavailableSeatsExact ==
    resp.op = "getSeats" =>
        LET reqO == OrderOnRoute(resp.scheduleId, resp.origin)
            reqD == OrderOnRoute(resp.scheduleId, resp.destination)
        IN  (reqO # NoOrder /\ reqD # NoOrder /\ reqO < reqD) =>
                /\ resp.code = 200
                /\ resp.seats = SeatsWithOverlap(resp.scheduleId, reqO, reqD)

(* Gohana -> Panipat asked while A1 is held Rohtak -> Gohana (touching) and A2
   Rohtak -> Panipat (overlapping), both live: only A2 is reported *)
C4_Witness ==
    /\ resp.op = "getSeats" /\ resp.code = 200
    /\ resp.origin = "Gohana" /\ resp.destination = "Panipat"
    /\ Len(bookings) = 2
    /\ bookings[1].origin = "Rohtak" /\ bookings[1].destination = "Gohana"
    /\ bookings[2].origin = "Rohtak" /\ bookings[2].destination = "Panipat"
    /\ \A i \in 1..2 : now - bookings[i].bookingDate <= LiveWindowHours
    /\ [bookingId |-> 1, seatId |-> "A1", origin |-> "Rohtak",
        destination |-> "Gohana"] \in bookedseats
    /\ [bookingId |-> 2, seatId |-> "A2", origin |-> "Rohtak",
        destination |-> "Panipat"] \in bookedseats
    /\ resp.seats = {"A2"}

-----------------------------------------------------------------------------
(* Properties of the paid ledger (Spec) *)

LiveOccupancy(r) ==
    /\ r \in bookedseats
    /\ now - bookings[r.bookingId].bookingDate <= LiveWindowHours
    /\ OrderOnRoute(bookings[r.bookingId].scheduleId, r.origin) # NoOrder
    /\ OrderOnRoute(bookings[r.bookingId].scheduleId, r.destination) # NoOrder

OccupanciesClash(r1, r2) ==
    /\ r1 # r2
    /\ bookings[r1.bookingId].scheduleId = bookings[r2.bookingId].scheduleId
    /\ r1.seatId = r2.seatId
    /\ Overlap(OrderOnRoute(bookings[r1.bookingId].scheduleId, r1.origin),
               OrderOnRoute(bookings[r1.bookingId].scheduleId, r1.destination),
               OrderOnRoute(bookings[r2.bookingId].scheduleId, r2.origin),
               OrderOnRoute(bookings[r2.bookingId].scheduleId, r2.destination))

(* C1: no two live SeatOccupancy rows of the same schedule and seat have
   overlapping segments.  The code never looks at bookedseats before it
   inserts, so this is violated. *)
C1_NoOverlappingLiveOccupancies ==
    \A r1, r2 \in bookedseats :
        (LiveOccupancy(r1) /\ LiveOccupancy(r2)) => ~OccupanciesClash(r1, r2)

(* the seats a request for (origin, destination) would be told are taken *)
TakenSeats(scheduleId, origin, destination) ==
    getBookedSeatsForSegment(DbView, bookings, bookedseats, now,
                             scheduleId, origin, destination).seats

(* C3: a bookPaid request that executes while one of its seats is in
   unavailableSeats(schedule, origin, destination) is rejected with
   SeatConflict and creates no booking.  Violated: the handler inserts. *)
C3_UnavailableSeatIsRejected ==
    [][\A in \in PaidInputs :
          ( /\ SeqToSet(RequestedSeatIds(in[2]))
                   \cap TakenSeats("S1", in[3][1], in[3][2]) # {}
            /\ resp'.op = "bookPaid"
            /\ bookPaid(in[1], "S1", in[2], in[3][1], in[3][2]) )
          => (resp'.error = "SeatConflict" /\ bookings' = bookings)]_vars

BookedFares(b) ==
    SumSeq([i \in 1..Len(b.passengerDetails) |->
               IF b.passengerDetails[i].status = "BOOKED"
               THEN b.passengerDetails[i].fare ELSE 0])

CancelledFares(b) ==
    SumSeq([i \in 1..Len(b.passengerDetails) |->
               IF b.passengerDetails[i].status = "CANCELLED"
               THEN b.passengerDetails[i].fare ELSE 0])

(* C5: Booking.fare is the sum of the stored fares of the passengers whose
   status is BOOKED, for every booking and in every state. *)
C5_FareIsSumOfBookedFares ==
    \A id \in BookingIds : bookings[id].fare = BookedFares(bookings[id])

(* a cancel has gone through and left a booking with one seat refunded and
   one still paid for *)
C5_Witness ==
    /\ resp.op = "cancel" /\ resp.code = 200
    /\ \E id \in BookingIds :
          /\ bookings[id].status = "PARTIALLY_CANCELLED"
          /\ bookings[id].fare > 0
          /\ bookings[id].fare < bookings[id].originalFare

Conservation(bks) ==
    \A id \in 1..Len(bks) : bks[id].originalFare - CancelledFares(bks[id]) = bks[id].fare

HasRepeat(seatIds) == \E i, j \in 1..Len(seatIds) : i < j /\ seatIds[i] = seatIds[j]

(* C6: originalFare less the fares of the CANCELLED passengers is the current
   fare, originalFare never changes, and a cancel request that repeats a
   seat id takes that passenger's fare off once. *)
C6_CancellationConservation ==
    [][ /\ Conservation(bookings')
        /\ \A id \in BookingIds : bookings'[id].originalFare = bookings[id].originalFare
        /\ \A in \in CancelInputs :
              ( /\ HasRepeat(in[3])
                /\ resp'.op = "cancel" /\ resp'.code = 200
                /\ cancel(in[1], in[2], in[3]) )
              => bookings[in[2]].fare - bookings'[in[2]].fare =
                     SumSeq([i \in 1..Len(bookings[in[2]].passengerDetails) |->
                               IF /\ bookings[in[2]].passengerDetails[i].seatId
                                         \in SeqToSet(in[3])
                                  /\ bookings[in[2]].passengerDetails[i].status = "BOOKED"
                               THEN bookings[in[2]].passengerDetails[i].fare ELSE 0])
      ]_vars

(* a two-seat booking of which the discounted seat has been refunded *)
C6_Witness ==
    \E id \in BookingIds :
        /\ Len(bookings[id].passengerDetails) = 2
        /\ bookings[id].passengerDetails[1].status = "CANCELLED"
        /\ bookings[id].passengerDetails[2].status = "BOOKED"
        /\ bookings[id].originalFare = 16000
        /\ bookings[id].fare = 10000

SeatRowsOf(rows, id) == {r \in rows : r.bookingId = id}

StatusSteps ==
    { <<"CONFIRMED", "PARTIALLY_CANCELLED">>, <<"CONFIRMED", "CANCELLED">>,
      <<"PARTIALLY_CANCELLED", "PARTIALLY_CANCELLED">>,
      <<"PARTIALLY_CANCELLED", "CANCELLED">> }

(* C8 as stated: every cancel request on a CANCELLED booking fails with
   AlreadyCancelled.  Violated: the toggle and the owner are checked first. *)
C8_AlwaysAlreadyCancelled ==
    [][\A in \in CancelInputs :
          ( /\ in[2] \in BookingIds
            /\ bookings[in[2]].status = "CANCELLED"
            /\ resp'.op = "cancel"
            /\ cancel(in[1], in[2], in[3]) )
          => resp'.error = "AlreadyCancelled"]_vars

(* C8, amended: a CANCELLED booking never changes again (row and occupancy
   rows), a cancel request on it fails, with AlreadyCancelled when it comes
   from the booking's owner while cancellation is enabled and with the error
   of the earlier check otherwise, and a status changes only along
   StatusSteps. *)
C8_CancelledIsTerminal ==
    [][ /\ \A id \in BookingIds :
              bookings[id].status = "CANCELLED" =>
                  /\ bookings'[id] = bookings[id]
                  /\ SeatRowsOf(bookedseats', id) = SeatRowsOf(bookedseats, id)
        /\ \A id \in BookingIds :
              bookings'[id].status # bookings[id].status =>
                  <<bookings[id].status, bookings'[id].status>> \in StatusSteps
        /\ \A in \in CancelInputs :
              ( /\ in[2] \in BookingIds
                /\ bookings[in[2]].status = "CANCELLED"
                /\ resp'.op = "cancel"
                /\ cancel(in[1], in[2], in[3]) )
              => /\ resp'.code # 200
                 /\ resp'.error =
                        IF ~IsAuthenticated(in[1]) THEN "AuthRequired"
                        ELSE IF settings["isCancellationEnabled"] # "true"
                        THEN "FeatureDisabled"
                        ELSE IF bookings[in[2]].userId # in[1] THEN "Unauthorized"
                        ELSE "AlreadyCancelled"
      ]_vars

(* a fully cancelled booking on which a further cancel was just refused *)
C8_Witness ==
    /\ resp.error = "AlreadyCancelled"
    /\ \E id \in BookingIds :
          /\ bookings[id].status = "CANCELLED"
          /\ SeatRowsOf(bookedseats, id) = {}

-----------------------------------------------------------------------------
(* Properties of the races and of the free-ticket desk *)

(* the booking id holds a seat of the pending request r on an overlapping
   stretch of the same schedule *)
ClashesWithPending(id, r) ==
    /\ bookings[id].scheduleId = r.row.scheduleId
    /\ \E x \in SeatRowsOf(bookedseats, id) : x.seatId \in SeqToSet(r.seatIds)
    /\ Overlap(OrderOnRoute(r.row.scheduleId, bookings[id].origin),
               OrderOnRoute(r.row.scheduleId, bookings[id].destination),
               OrderOnRoute(r.row.scheduleId, r.row.origin),
               OrderOnRoute(r.row.scheduleId, r.row.destination))

(* C2: of two concurrent bookPaid transactions asking for a common seat on
   overlapping segments at most one commits: the one that comes to commit
   after the other (which committed after this one began) fails with
   SeatConflict and leaves no rows.  Violated: both commit. *)
C2_ConcurrentPaidAtMostOneCommits ==
    [][\A p \in Procs :
          ( /\ proc[p].pc = "paid_tx"
            /\ \E id \in BookingIds : id > proc[p].began /\ ClashesWithPending(id, proc[p])
            /\ PaidCommit(p) )
          => /\ resp'.code = 409 /\ resp'.error = "SeatConflict"
             /\ bookings' = bookings
             /\ bookedseats' = bookedseats]_vars

(* C7: a booking's status is determined by its passenger statuses: CANCELLED
   iff every PassengerDetail is CANCELLED, PARTIALLY_CANCELLED iff at least
   one but not all are, CONFIRMED iff none is.  Violated by a free booking,
   which is stored CONFIRMED with a seat and no PassengerDetail. *)
C7_StatusFollowsPassengers ==
    \A id \in BookingIds :
        LET b == bookings[id]
            all == \A i \in 1..Len(b.passengerDetails) :
                       b.passengerDetails[i].status = "CANCELLED"
            some == \E i \in 1..Len(b.passengerDetails) :
                       b.passengerDetails[i].status = "CANCELLED"
        IN  /\ b.status = "CANCELLED" <=> all
            /\ b.status = "PARTIALLY_CANCELLED" <=> (some /\ ~all)
            /\ b.status = "CONFIRMED" <=> ~some

FreeBookingsOf(reg) ==
    {id \in BookingIds :
        bookings[id].isFreeTicket /\ bookings[id].govtExamRegistrationNumber = reg}

(* C9: of the bookFree requests that present the same eligibility record, one
   after another or interleaved, at most one commits a booking, and one that
   reaches the beneficiary row after the ticket was claimed fails with
   AlreadyClaimed and writes nothing. *)
C9_OneClaimPerRecord ==
    [][ /\ \A reg \in Regs : Cardinality({id \in 1..Len(bookings') :
               bookings'[id].isFreeTicket
               /\ bookings'[id].govtExamRegistrationNumber = reg}) <= 1
        /\ \A p \in Procs :
              ( /\ proc[p].pc = "free_tx"
                /\ FreeBookingsOf(proc[p].registrationNumber) # {}
                /\ govtbeneficiaries[proc[p].registrationNumber].phone = proc[p].phone
                /\ FreeLock(p) )
              => /\ resp'.code = 409 /\ resp'.error = "AlreadyClaimed"
                 /\ proc'[p] = Idle
                 /\ bookings' = bookings /\ bookedseats' = bookedseats
      ]_vars

(* one connection has committed the claim of R1 while the other, which began
   before that commit with the same record, is still to read the row *)
C9_Witness ==
    \E p \in Procs :
        /\ proc[p].pc = "free_tx"
        /\ proc[p].registrationNumber = "R1" /\ proc[p].phone = "ph1"
        /\ proc[p].began = 0
        /\ Cardinality(FreeBookingsOf("R1")) = 1
        /\ govtbeneficiaries["R1"].ticketClaimed

(* C10: at most one free booking is ever committed for one registration
   number.  Violated: a second upload of the list resets ticketClaimed. *)
C10_OneFreeTicketPerBeneficiary ==
    \A reg \in Regs : Cardinality(FreeBookingsOf(reg)) <= 1

-----------------------------------------------------------------------------
(* Properties of the FareEngine (SpecFare) *)

(* cumulative fare of the stop a stored name resolves to, in rupees *)
CumulativeFare(scheduleId, name) ==
    routestops[scheduleId][OrderOnRoute(scheduleId, name) + 1].fare

BaseFare(b) ==
    CumulativeFare(b.scheduleId, b.destination) - CumulativeFare(b.scheduleId, b.origin)

ConfiguredPercent(key, dflt) ==
    IF settings[key] \in {NoRow, ""} THEN dflt ELSE NumberOf(settings[key])

DiscountApplies(scheduleId) ==
    /\ settings["isDiscountSystemEnabled"] = "true"
    /\ routestops[scheduleId][1].stopName \in discounted_districts

(* what the seat should cost, in hundredths of a rupee *)
ExpectedFare(b, type) ==
    IF type = "CHILD" /\ DiscountApplies(b.scheduleId)
    THEN BaseFare(b) * (100 - ConfiguredPercent("childDiscountPercentage", 40))
    ELSE IF type = "SENIOR" /\ DiscountApplies(b.scheduleId)
    THEN BaseFare(b) * (100 - ConfiguredPercent("seniorDiscountPercentage", 50))
    ELSE BaseFare(b) * 100

(* C11: every seat priced by bookPaid costs base = cumulativeFare(destination)
   - cumulativeFare(origin) when NORMAL, and base * (1 - percent/100) when
   CHILD or SENIOR iff the discount toggle is on and the schedule's origin is a
   discount district (base otherwise), the percentages defaulting to 40 and
   50. *)
C11_SeatPricing ==
    \A id \in BookingIds :
        ~bookings[id].isFreeTicket =>
            \A i \in 1..Len(bookings[id].passengerDetails) :
                bookings[id].passengerDetails[i].fare =
                    ExpectedFare(bookings[id], bookings[id].passengerDetails[i].type)

(* the example: Rohtak 0, Panipat 100, default percentages, Rohtak discounted:
   CHILD 60, SENIOR 50, NORMAL 100 *)
C11_Witness ==
    /\ settings["childDiscountPercentage"] = NoRow
    /\ settings["seniorDiscountPercentage"] = NoRow
    /\ discounted_districts = {"Rohtak"}
    /\ \E id \in BookingIds :
          /\ bookings[id].origin = "Rohtak" /\ bookings[id].destination = "Panipat"
          /\ Len(bookings[id].passengerDetails) = 3
          /\ bookings[id].passengerDetails[1].type = "CHILD"
          /\ bookings[id].passengerDetails[1].fare = 6000
          /\ bookings[id].passengerDetails[2].type = "SENIOR"
          /\ bookings[id].passengerDetails[2].fare = 5000
          /\ bookings[id].passengerDetails[3].type = "NORMAL"
          /\ bookings[id].passengerDetails[3].fare = 10000

(* C12: no fare stored by bookPaid is negative: neither a passenger's fare
   nor the booking's fare or originalFare.  Violated on a route whose
   cumulative fares fall: the booking handler takes the difference as it is. *)
C12_NoNegativeFares ==
    \A id \in BookingIds :
        /\ bookings[id].fare >= 0
        /\ bookings[id].originalFare >= 0
        /\ \A i \in 1..Len(bookings[id].passengerDetails) :
              bookings[id].passengerDetails[i].fare >= 0

-----------------------------------------------------------------------------
(* Properties of the cancellation window (SpecWindow) *)

(* D: the first time at or after the booking timestamp whose time of day is
   the departure of the booking's origin stop *)
DepartureOf(b) ==
    LET dep == routestops[b.scheduleId][OrderOnRoute(b.scheduleId, b.origin) + 1].departureTime
    IN  CHOOSE t \in b.bookingDate..(b.bookingDate + 23) : t % 24 = dep

CutoffOf(b) == DepartureOf(b) - 1

(* C13: a cancel request succeeds only strictly before cutoff = D - 1 hour; a
   request by the owner of a CONFIRMED booking at a time >= cutoff is answered
   WindowClosed and changes nothing, and WindowClosed is answered at no time
   before the cutoff. *)
C13_CancelOnlyBeforeCutoff ==
    [][\A in \in WindowCancelInputs :
          (/\ resp'.op = "cancel"
           /\ in[2] \in BookingIds
           /\ bookings[in[2]].status = "CONFIRMED"
           /\ bookings[in[2]].userId = in[1]
           /\ cancel(in[1], in[2], in[3]))
          => /\ resp'.code = 200 => now < CutoffOf(bookings[in[2]])
             /\ now >= CutoffOf(bookings[in[2]])
                   => /\ resp'.error = "WindowClosed"
                      /\ bookings' = bookings /\ bookedseats' = bookedseats
             /\ resp'.error = "WindowClosed" => now >= CutoffOf(bookings[in[2]])]_vars

(* a booking made after its stop's departure time of day, so that D is on the
   next day, has been cancelled, and a request on another booking has been
   turned away with WindowClosed *)
C13_Witness ==
    /\ resp.op = "cancel" /\ resp.error = "WindowClosed"
    /\ \E id \in BookingIds :
          /\ bookings[id].status = "CANCELLED"
          /\ bookings[id].bookingDate = 11
          /\ bookings[id].origin = "Rohtak"

-----------------------------------------------------------------------------
(* Cancellation and availability (Spec) *)

ForwardSegments ==
    { <<"Rohtak", "Gohana">>, <<"Gohana", "Panipat">>, <<"Rohtak", "Panipat">> }

(* seats of booking id whose passenger goes from BOOKED to CANCELLED in the step *)
SeatsCancelledInStep(id) ==
    {bookings[id].passengerDetails[i].seatId : i \in
        {j \in 1..Len(bookings[id].passengerDetails) :
            /\ bookings[id].passengerDetails[j].status = "BOOKED"
            /\ bookings'[id].passengerDetails[j].status = "CANCELLED"}}

SeatsStillBookedAfterStep(id) ==
    {bookings'[id].passengerDetails[i].seatId : i \in
        {j \in 1..Len(bookings'[id].passengerDetails) :
            bookings'[id].passengerDetails[j].status = "BOOKED"}}

(* C14: right after a cancel request commits for seat S of booking B, the
   rows of B make S unavailable on no segment, and the seats of B that were
   not cancelled are still unavailable on B's segment while B is live. *)
C14_CancelFreesSeat ==
    [][\A in \in CancelInputs :
          (/\ resp'.op = "cancel" /\ resp'.code = 200
           /\ cancel(in[1], in[2], in[3]))
          => /\ SeatsCancelledInStep(in[2]) # {}
             /\ \A q \in ForwardSegments :
                   getBookedSeatsForSegment(DbView, bookings', SeatRowsOf(bookedseats', in[2]),
                                            now, bookings[in[2]].scheduleId, q[1], q[2]).seats
                       \cap SeatsCancelledInStep(in[2]) = {}
             /\ now - bookings[in[2]].bookingDate <= LiveWindowHours
                   => SeatsStillBookedAfterStep(in[2]) \subseteq
                          getBookedSeatsForSegment(DbView, bookings', bookedseats', now,
                              bookings[in[2]].scheduleId, bookings[in[2]].origin,
                              bookings[in[2]].destination).seats]_vars

(* booking 1 gave up A1 and kept A2, and A1 was then booked again on a segment
   that overlaps, within the 24 hours *)
C14_Witness ==
    /\ resp.op = "bookPaid" /\ resp.code = 201
    /\ Len(bookings) = 2
    /\ bookings[1].status = "PARTIALLY_CANCELLED"
    /\ bookings[1].passengerDetails[1].seatId = "A1"
    /\ bookings[1].passengerDetails[1].status = "CANCELLED"
    /\ now - bookings[1].bookingDate <= LiveWindowHours
    /\ bookings[2].passengerDetails[1].seatId = "A1"
    /\ bookings[2].passengerDetails[1].status = "BOOKED"
    /\ Overlap(OrderOnRoute("S1", bookings[1].origin), OrderOnRoute("S1", bookings[1].destination),
               OrderOnRoute("S1", bookings[2].origin), OrderOnRoute("S1", bookings[2].destination))
    /\ TakenSeats("S1", "Rohtak", "Panipat") = {"A1", "A2"}

-----------------------------------------------------------------------------
(* Properties of the feature toggles (SpecToggles) *)

LedgerUnchanged ==
    /\ bookings' = bookings
    /\ bookedseats' = bookedseats
    /\ govtbeneficiaries' = govtbeneficiaries

BookingIsOff(scheduleId) ==
    \/ settings["isBookingSystemOnline"] # "true"
    \/ schedules[scheduleId].bookingEnabled # "1"

(* C15: while isBookingSystemOnline is off or the schedule's booking flag is
   off no bookPaid or bookFree request on the schedule commits; while
   isFreeBookingEnabled is off no bookFree commits; while
   isCancellationEnabled is off no cancel commits; the stored state is
   unchanged in each case.  Violated: bookPaid reads neither the system toggle
   nor the schedule's flag. *)
C15_TogglesGateLedger ==
    [][/\ (BookingIsOff("S1") /\ resp'.op \in {"bookPaid", "bookFree"})
              => (resp'.code # 201 /\ LedgerUnchanged)
       /\ (settings["isFreeBookingEnabled"] # "true" /\ resp'.op = "bookFree")
              => (resp'.code # 201 /\ LedgerUnchanged)
       /\ (settings["isCancellationEnabled"] # "true" /\ resp'.op = "cancel")
              => (resp'.code # 200 /\ LedgerUnchanged)]_vars

-----------------------------------------------------------------------------
(* Properties of passenger validation (SpecPassengers) *)

(* exactly twelve decimal digits, on the document numbers of the model *)
IsTwelveDigits(doc) == doc = "123456789012"

PassengerIsInvalid(seat) ==
    \/ seat.fullName \in {"", " "}
    \/ seat.type \in {"CHILD", "SENIOR"} /\ ~IsTwelveDigits(seat.aadhaarNumber)

(* C16: a bookPaid request with a seat whose name is empty or blank, or that
   is CHILD or SENIOR without a document number of exactly 12 digits, is
   rejected with InvalidPassenger before any write, and every stored CHILD or
   SENIOR passenger carries a 12-digit document number.  Violated: the handler
   tests the length of the document number only, and stores the number only
   when the discount applies. *)
C16_InvalidPassengerRejected ==
    [][/\ \A in \in PassengerInputs :
             (/\ resp'.op = "bookPaid"
              /\ \E i \in 1..Len(in[2]) : PassengerIsInvalid(in[2][i])
              /\ bookPaid(in[1], "S1", in[2], in[3][1], in[3][2]))
             => (resp'.error = "InvalidPassenger" /\ LedgerUnchanged)
       /\ \A id \in 1..Len(bookings') :
             \A i \in 1..Len(bookings'[id].passengerDetails) :
                 bookings'[id].passengerDetails[i].type \in {"CHILD", "SENIOR"}
                     => IsTwelveDigits(bookings'[id].passengerDetails[i].aadhaarNumber)]_vars

-----------------------------------------------------------------------------
(* Properties of schedule administration (SpecSchedules) *)

(* some id of the batch is in the store or earlier in the batch *)
HasDuplicate(batch) ==
    \E i \in 1..Len(batch) :
        /\ batch[i].id # ""
        /\ \/ batch[i].id \in DOMAIN schedules
           \/ \E j \in 1..(i - 1) : batch[j].id = batch[i].id

(* the upload gets as far as its transaction *)
MayUpload(userId, batch) ==
    /\ batch # <<>>
    /\ \/ users[userId].role = "ADMIN"
       \/ /\ users[userId].role = "SUB_ADMIN"
          /\ \A i \in 1..Len(batch) : batch[i].stops[1].stopName \in subadmindistricts[userId]

StoredAsUploaded(schedule, id) ==
    /\ id \in DOMAIN schedules' /\ id \in DOMAIN routestops'
    /\ schedules'[id].busName = schedule.busName
    /\ Len(routestops'[id]) = Len(schedule.stops)
    /\ \A k \in 1..Len(schedule.stops) :
          /\ routestops'[id][k].stopName = schedule.stops[k].stopName
          /\ routestops'[id][k].fare = schedule.stops[k].fareFromOrigin

(* C17: a batch upload with a schedule id that is already stored, or that
   occurs earlier in the batch, fails with DuplicateSchedule and stores none
   of the batch; any other batch is stored whole, each schedule with its stops
   in the given sequence (orders 0..n-1), and the stored schedules stay. *)
C17_BatchUploadAllOrNothing ==
    [][\A in \in BatchInputs :
          (/\ resp'.op = "batchUpload"
           /\ MayUpload(in[1], in[2])
           /\ batchUploadSchedules(in[1], in[2]))
          => IF HasDuplicate(in[2])
             THEN /\ resp'.error = "DuplicateSchedule"
                  /\ schedules' = schedules /\ routestops' = routestops
             ELSE /\ resp'.code = 201
                  /\ Cardinality(DOMAIN schedules') =
                         Cardinality(DOMAIN schedules) + Len(in[2])
                  /\ \A id \in DOMAIN schedules :
                        /\ schedules'[id] = schedules[id]
                        /\ routestops'[id] = routestops[id]
                  /\ \A i \in 1..Len(in[2]) :
                        \E id \in DOMAIN schedules' \ DOMAIN schedules :
                            /\ in[2][i].id # "" => id = in[2][i].id
                            /\ StoredAsUploaded(in[2][i], id)]_vars

(* a batch of two was stored whole, and an upload whose second schedule was a
   duplicate has been refused with its first schedule left out *)
C17_Witness ==
    /\ resp.op = "batchUpload" /\ resp.error = "DuplicateSchedule"
    /\ DOMAIN schedules = {"S1", "S2", "S3"}
    /\ routestops["S2"][1].stopName = "Karnal"
    /\ "U1" \notin DOMAIN schedules

(* first stop name of a stored schedule *)
StoredOrigin(id) == routestops[id][1].stopName

(* C19: a batch upload or schedule edit by a SUB_ADMIN is rejected as
   Unauthorized, with no write, unless the origin district (first stop name)
   of the schedule is among the sub-admin's districts, both as the schedule is
   stored and as it would be after the edit.  Violated: the edit tests the new
   first stop only. *)
C19_SubAdminStaysInDistricts ==
    [][/\ \A in \in BatchInputs :
             (/\ resp'.op = "batchUpload"
              /\ in[1] \in DOMAIN users /\ users[in[1]].role = "SUB_ADMIN"
              /\ \E i \in 1..Len(in[2]) :
                    in[2][i].stops[1].stopName \notin subadmindistricts[in[1]]
              /\ batchUploadSchedules(in[1], in[2]))
             => /\ resp'.error = "Unauthorized"
                /\ schedules' = schedules /\ routestops' = routestops
       /\ \A in \in EditInputs :
             (/\ resp'.op = "updateSchedule"
              /\ in[1] \in DOMAIN users /\ users[in[1]].role = "SUB_ADMIN"
              /\ in[3].stops # <<>>
              /\ \/ in[3].stops[1].stopName \notin subadmindistricts[in[1]]
                 \/ /\ in[2] \in DOMAIN schedules
                    /\ StoredOrigin(in[2]) \notin subadmindistricts[in[1]]
              /\ updateSchedule(in[1], in[2], in[3]))
             => /\ resp'.error = "Unauthorized"
                /\ schedules' = schedules /\ routestops' = routestops]_vars

-----------------------------------------------------------------------------
(* Properties of the RevenueAggregator (SpecRevenue) *)

(* the bookings the report of resp.userId covers: the paid ones, and for a
   sub-admin those whose origin is an assigned district *)
InReport(id) ==
    /\ ~bookings[id].isFreeTicket
    /\ users[resp.userId].role = "SUB_ADMIN"
           => bookings[id].origin \in subadmindistricts[resp.userId]

(* sum over the covered bookings of the fares of the passengers of one type
   and status *)
RECURSIVE LedgerFares(_, _, _)
LedgerFares(ids, type, status) ==
    IF ids = {} THEN 0
    ELSE LET id == CHOOSE x \in ids : TRUE
             pd == bookings[id].passengerDetails
         IN  SumSeq([i \in 1..Len(pd) |->
                        IF pd[i].type = type /\ pd[i].status = status
                        THEN pd[i].fare ELSE 0])
             + LedgerFares(ids \ {id}, type, status)

LedgerTickets(ids, type, status) ==
    Cardinality({<<id, i>> \in ids \X (1..3) :
        /\ i <= Len(bookings[id].passengerDetails)
        /\ bookings[id].passengerDetails[i].type = type
        /\ bookings[id].passengerDetails[i].status = status})

Covered == {id \in BookingIds : InReport(id)}

FieldSum(rows, field) == SumSeq([k \in 1..Len(rows) |-> rows[k][field]])

(* C18: the revenue report counts the passengers of paid bookings only, BOOKED
   ones in the gross figures and CANCELLED ones in the refunded figures; net =
   gross - refunded in every category bucket and in the summary; and each
   summary figure is the sum of that figure over the category buckets. *)
C18_RevenueReport ==
    (resp.op = "revenue" /\ resp.code = 200) =>
        /\ \A k \in 1..Len(resp.byCategory) :
              LET c == resp.byCategory[k]
              IN  /\ c.grossRevenue = LedgerFares(Covered, c.type, "BOOKED")
                  /\ c.refundedRevenue = LedgerFares(Covered, c.type, "CANCELLED")
                  /\ c.bookedTickets = LedgerTickets(Covered, c.type, "BOOKED")
                  /\ c.cancelledTickets = LedgerTickets(Covered, c.type, "CANCELLED")
                  /\ c.netRevenue = c.grossRevenue - c.refundedRevenue
        /\ \A t \in {"NORMAL", "CHILD", "SENIOR"} :
              (\A k \in 1..Len(resp.byCategory) : resp.byCategory[k].type # t)
                  => /\ LedgerTickets(Covered, t, "BOOKED") = 0
                     /\ LedgerTickets(Covered, t, "CANCELLED") = 0
        /\ resp.summary.netRevenue =
               resp.summary.grossRevenue - resp.summary.refundedRevenue
        /\ \A f \in {"grossRevenue", "refundedRevenue", "netRevenue", "bookedTickets",
                     "cancelledTickets"} :
              resp.summary[f] = FieldSum(resp.byCategory, f)

(* the administrator's report over a ledger with a free ticket, a cancelled
   CHILD passenger (60) and booked NORMAL passengers *)
C18_Witness ==
    /\ resp.op = "revenue" /\ resp.code = 200 /\ resp.userId = "admin"
    /\ \E id \in BookingIds : bookings[id].isFreeTicket
    /\ resp.summary.refundedRevenue = 6000
    /\ resp.summary.grossRevenue = 10000
    /\ resp.summary.netRevenue = 4000
    /\ resp.summary.bookedTickets = 1
    /\ resp.summary.cancelledTickets = 1

-----------------------------------------------------------------------------
(* Skipped seats (SpecSkip) *)

(* the requested seat ids that a BOOKED passenger of the booking holds *)
BookedAmong(b, seatIds) ==
    {seatId \in SeqToSet(seatIds) :
        \E i \in 1..Len(b.passengerDetails) :
            /\ b.passengerDetails[i].seatId = seatId
            /\ b.passengerDetails[i].status = "BOOKED"}

(* the request is the owner's, on a booking not CANCELLED, with cancellation
   switched on and the window open *)
ReachesSeatLoop(userId, id) ==
    /\ id \in BookingIds
    /\ bookings[id].userId = userId
    /\ bookings[id].status # "CANCELLED"
    /\ settings["isCancellationEnabled"] = "true"
    /\ now < CutoffOf(bookings[id])

(* C20: in a cancel request the seat ids that match no passenger of the
   booking, or a passenger already CANCELLED, are skipped without error: the
   passengers cancelled are exactly the BOOKED ones among the requested seats;
   and when there is none the request fails with NothingToCancel and the
   booking's row (fare, status, passengers) and the occupancy rows are
   unchanged. *)
C20_SkippedSeats ==
    [][\A in \in SkipCancelInputs :
          (/\ resp'.op = "cancel"
           /\ ReachesSeatLoop(in[1], in[2])
           /\ cancel(in[1], in[2], in[3]))
          => IF BookedAmong(bookings[in[2]], in[3]) = {}
             THEN /\ resp'.error = "NothingToCancel"
                  /\ bookings' = bookings /\ bookedseats' = bookedseats
             ELSE /\ resp'.code = 200
                  /\ \A i \in 1..Len(bookings[in[2]].passengerDetails) :
                        bookings'[in[2]].passengerDetails[i].status =
                            IF bookings[in[2]].passengerDetails[i].seatId
                                   \in BookedAmong(bookings[in[2]], in[3])
                            THEN "CANCELLED"
                            ELSE bookings[in[2]].passengerDetails[i].status]_vars

(* the only booking has a cancelled and a booked passenger, and a request on
   it has just failed with NothingToCancel *)
C20_Witness ==
    /\ resp.op = "cancel" /\ resp.error = "NothingToCancel"
    /\ Len(bookings) = 1
    /\ bookings[1].status = "PARTIALLY_CANCELLED"
    /\ bookings[1].fare = 10000

-----------------------------------------------------------------------------
(* Properties of concurrent cancellation (SpecCancelRace) *)

(* fares of the passengers of booking id that go from BOOKED to CANCELLED in
   the step *)
FaresCancelledInStep(id) ==
    SumSeq([i \in 1..Len(bookings[id].passengerDetails) |->
               IF /\ bookings[id].passengerDetails[i].status = "BOOKED"
                  /\ bookings'[id].passengerDetails[i].status = "CANCELLED"
               THEN bookings[id].passengerDetails[i].fare ELSE 0])

StatusOfPassengers(b) ==
    IF \A i \in 1..Len(b.passengerDetails) : b.passengerDetails[i].status = "CANCELLED"
    THEN "CANCELLED" ELSE "PARTIALLY_CANCELLED"

(* C21: concurrent cancel requests on one booking serialize on the Booking
   row: every committed change of a booking takes off the booking's current
   fare exactly the fares of the passengers it turns from BOOKED to CANCELLED
   (at least one), no passenger leaves CANCELLED, so no seat is refunded
   twice; and afterwards fare = originalFare - fares of the CANCELLED
   passengers, with the status that the passenger statuses give. *)
C21_ConcurrentCancelsSerialize ==
    [][\A id \in BookingIds :
          bookings'[id] # bookings[id]
          => /\ SeatsCancelledInStep(id) # {}
             /\ \A i \in 1..Len(bookings[id].passengerDetails) :
                   bookings[id].passengerDetails[i].status = "CANCELLED"
                       => bookings'[id].passengerDetails[i].status = "CANCELLED"
             /\ bookings'[id].fare = bookings[id].fare - FaresCancelledInStep(id)
             /\ bookings'[id].originalFare = bookings[id].originalFare
             /\ bookings'[id].fare =
                    bookings'[id].originalFare - CancelledFares(bookings'[id])
             /\ bookings'[id].status = StatusOfPassengers(bookings'[id])]_vars

(* the second of two requests on booking 1 has taken its turn after the first
   committed the cancellation of one seat: both seats are cancelled, nothing is
   left of the fare of 160, and the other connection is still in its
   transaction on the same booking *)
C21_Witness ==
    /\ resp.op = "cancel" /\ resp.code = 200
    /\ bookings # <<>>
    /\ bookings[1].status = "CANCELLED"
    /\ bookings[1].originalFare = 16000 /\ bookings[1].fare = 0
    /\ \E q \in Procs : proc[q].pc = "cancel_tx" /\ proc[q].bookingId = 1

-----------------------------------------------------------------------------
(* Occupancy rows and passengers (SpecCancelRace) *)

OccupiedSeatIds(id) == {r.seatId : r \in SeatRowsOf(bookedseats, id)}

BookedSeatIds(id) ==
    {bookings[id].passengerDetails[i].seatId :
        i \in {j \in 1..Len(bookings[id].passengerDetails) :
                  bookings[id].passengerDetails[j].status = "BOOKED"}}

(* C22: in every committed state and for every paid booking the seat ids that
   have a bookedseats row of the booking are exactly the seat ids of its
   passengers whose status is BOOKED. *)
C22_OccupancyMatchesPassengers ==
    \A id \in BookingIds :
        ~bookings[id].isFreeTicket => OccupiedSeatIds(id) = BookedSeatIds(id)

(* a booking of two seats of which one has been cancelled, while another
   cancel request on it is in its transaction *)
C22_Witness ==
    /\ bookings # <<>>
    /\ bookings[1].status = "PARTIALLY_CANCELLED"
    /\ OccupiedSeatIds(1) = {"A2"}
    /\ BookedSeatIds(1) = {"A2"}
    /\ \E q \in Procs : HoldsBookingLock(q, 1)

-----------------------------------------------------------------------------
(* Seat recycling by age (SpecAvail) *)

(* the row's booking is on the asked schedule and its stored segment resolves
   on the route and overlaps the asked segment [reqO, reqD) *)
RowOverlapsQuery(r, reqO, reqD) ==
    LET b == bookings[r.bookingId]
        occO == OrderOnRoute(resp.scheduleId, b.origin)
        occD == OrderOnRoute(resp.scheduleId, b.destination)
    IN  /\ b.scheduleId = resp.scheduleId
        /\ occO # NoOrder /\ occD # NoOrder
        /\ Overlap(reqO, reqD, occO, occD)

AgeInHours(r) == now - bookings[r.bookingId].bookingDate

(* C23: an occupancy whose booking is more than 24 hours older than the
   availability query never makes its seat unavailable: every seat reported
   has an overlapping occupancy at most 24 hours old; and every overlapping
   occupancy at most 24 hours old makes its seat unavailable. *)
C23_SeatRecyclingByAge ==
    (resp.op = "getSeats" /\ resp.code = 200) =>
        LET reqO == OrderOnRoute(resp.scheduleId, resp.origin)
            reqD == OrderOnRoute(resp.scheduleId, resp.destination)
            young == {r \in bookedseats : AgeInHours(r) <= 24}
        IN  /\ \A seatId \in resp.seats :
                  \E r \in young : r.seatId = seatId /\ RowOverlapsQuery(r, reqO, reqD)
            /\ \A r \in young : RowOverlapsQuery(r, reqO, reqD) => r.seatId \in resp.seats

(* at hour 33 seat A1, held Rohtak -> Panipat since hour 8 (25 hours) and
   never cancelled, is free again on that segment, while A2, held since hour 9
   (24 hours), is still unavailable *)
C23_Witness ==
    /\ resp.op = "getSeats" /\ resp.code = 200
    /\ resp.origin = "Rohtak" /\ resp.destination = "Panipat"
    /\ now = 33
    /\ Len(bookings) = 2
    /\ bookings[1].bookingDate = 8 /\ bookings[2].bookingDate = 9
    /\ \A i \in 1..2 : bookings[i].origin = "Rohtak" /\ bookings[i].destination = "Panipat"
    /\ \E r \in bookedseats : r.bookingId = 1 /\ r.seatId = "A1"
    /\ \E r \in bookedseats : r.bookingId = 2 /\ r.seatId = "A2"
    /\ resp.seats = {"A2"}

-----------------------------------------------------------------------------
(* Properties of schedule edits under concurrency (SpecEditRace) *)

(* the stop list a request reads for schedule id *)
StopsRead(id) ==
    LET schedule == fetchAndAssembleSchedules(DbView, id)
    IN  IF schedule.found THEN schedule.fullRouteStops ELSE <<>>

(* the stop list as a committed edit with these stops leaves it *)
StopsAsEdited(stops) ==
    [i \in 1..Len(stops) |-> [stopName |-> stops[i].stopName,
                              departureTime |-> stops[i].departureTime,
                              fare |-> stops[i].fareFromOrigin]]

(* the stop names of a list as a read returns them *)
NamesRead(id) == [k \in 1..Len(StopsRead(id)) |-> StopsRead(id)[k].name]

NamesOf(list) == [k \in 1..Len(list) |-> list[k].stopName]

(* what a read of schedule id returns now is one whole list: the initial
   one with the initial attributes, or the list of one edit with the attributes
   of that edit *)
ReadIsWhole(id) ==
    \/ /\ NamesRead(id) = NamesOf(InitialRoute)
       /\ schedules[id] = InitialSchedule
    \/ \E body \in EditRaceBodies :
          /\ NamesRead(id) = NamesOf(body.stops)
          /\ schedules[id].busName = body.busName
          /\ schedules[id].seatLayout = body.seatLayout

(* C24: every read of a schedule's stops returns the complete old stop list or
   the complete new one, never an empty or partial one, at every point of a
   racing edit; the stored list and attributes change only in the step that
   commits an edit, and then to the whole list of that edit together with its
   attributes; an edit that fails leaves the stop list and the schedule's
   attributes as they were. *)
C24_EditReplacesStopsAtomically ==
    [][\A id \in DOMAIN schedules :
          /\ ReadIsWhole(id)
          /\ (routestops'[id] # routestops[id] \/ schedules'[id] # schedules[id])
                => \E p \in Procs :
                      /\ proc[p].pc = "edit_insert" /\ proc[p].id = id
                      /\ resp'.op = "updateSchedule" /\ resp'.code = 200
                      /\ routestops'[id] = StopsAsEdited(proc[p].body.stops)
                      /\ schedules'[id].busName = proc[p].body.busName
                      /\ schedules'[id].seatLayout = proc[p].body.seatLayout
          /\ (resp'.op = "updateSchedule" /\ resp'.code # 200)
                => (routestops'[id] = routestops[id] /\ schedules'[id] = schedules[id])]_vars

(* an availability query has been answered from the complete list while an
   edit has deleted the old stops and inserted the first of the new ones *)
C24_Witness ==
    /\ resp.op = "getSeats" /\ resp.code = 200
    /\ routestops["S1"] = InitialRoute
    /\ \E p \in Procs :
          /\ proc[p].pc = "edit_insert" /\ proc[p].id = "S1"
          /\ Len(proc[p].working) = 1

-----------------------------------------------------------------------------
(* DiscountConfig: settings and discount districts written by administrators
   and other callers, with percentages inside and outside 0..100 *)

ConfigCallers == {"admin", "sub1", "u1", NoUser}
ConfigKeys == {"childDiscountPercentage", "seniorDiscountPercentage", "isDiscountSystemEnabled"}
ConfigValues == {"0", "40", "100", "150", "abc", "true", "false"}
ConfigDistricts == { {}, {"Rohtak"}, {"Rohtak", "Gohana"} }
ConfigReads == ConfigKeys \cup {"theme"}

NextConfig ==
    \/ \E userId \in ConfigCallers, key \in ConfigKeys, value \in ConfigValues :
           PutSetting(userId, key, value)
    \/ \E userId \in ConfigCallers, districts \in ConfigDistricts :
           PutDiscountDistricts(userId, districts)
    \/ \E key \in ConfigReads : getSetting(key)

SpecConfig == InitOperating /\ [][NextConfig]_vars

(* the strings that Number() turns into a number *)
NumericStrings == {"0", "25", "40", "50", "100", "150"}

(* a stored percentage is a number in 0..100, or no row is stored *)
IsPercentage(value) ==
    value = NoRow \/ (value \in NumericStrings /\ NumberOf(value) \in 0..Percent)

(* the configuration pricing works with: the two percentages as read with
   their defaults, the discount toggle as compared with 'true', the districts *)
EffectiveConfig(st, dd) ==
    [child |-> IF st["childDiscountPercentage"] \in {NoRow, ""} THEN "40"
               ELSE st["childDiscountPercentage"],
     senior |-> IF st["seniorDiscountPercentage"] \in {NoRow, ""} THEN "50"
                ELSE st["seniorDiscountPercentage"],
     enabled |-> st["isDiscountSystemEnabled"] = "true",
     districts |-> dd]

(* C25: the stored child and senior percentages are always numbers in 0..100;
   the configuration changes only in a step that answers 200 to a settings or
   districts update (which only an ADMIN obtains); an update of a percentage to
   an out-of-range or non-numeric value, or one that is refused, changes
   nothing. *)
C25_DiscountConfigWellFormed ==
    [][/\ IsPercentage(settings'["childDiscountPercentage"])
       /\ IsPercentage(settings'["seniorDiscountPercentage"])
       /\ EffectiveConfig(settings', discounted_districts')
              # EffectiveConfig(settings, discounted_districts)
              => (resp'.op \in {"putSetting", "putDistricts"} /\ resp'.code = 200)
       /\ (resp'.op \in {"putSetting", "putDistricts"} /\ resp'.code # 200)
              => (settings' = settings /\ discounted_districts' = discounted_districts)]_vars

(* C26: the seat layout of a stored schedule never changes: every step leaves
   the seatLayout of every schedule that exists before and after it as it was. *)
C26_SeatLayoutImmutable ==
    [][\A id \in DOMAIN schedules \cap DOMAIN schedules' :
          schedules'[id].seatLayout = schedules[id].seatLayout]_vars

-----------------------------------------------------------------------------
(* Ownership of cancellation: bookings of two users, cancel requests by the
   owner, the other user and an unauthenticated caller, with the cancellation
   toggle switched and the clock passing the cutoff *)

OwnerPaidInputs ==
    { <<"u1", <<Normal("A1")>>, <<"Rohtak", "Panipat">> >>,
      <<"u2", <<Normal("B1")>>, <<"Rohtak", "Panipat">> >> }

OwnerCancelInputs ==
    {"u1", "u2", NoUser} \X (1..MaxBookings) \X { <<>>, <<"A1">>, <<"B1">> }

(* a time after the cutoff of every booking made at the initial time *)
OwnerTimes == {33}

NextOwner ==
    \/ \E in \in OwnerPaidInputs : bookPaid(in[1], "S1", in[2], in[3][1], in[3][2])
    \/ \E in \in OwnerCancelInputs : cancel(in[1], in[2], in[3])
    \/ \E value \in {"true", "false"} : PutSetting("admin", "isCancellationEnabled", value)
    \/ \E t \in OwnerTimes : WindowTick(t)

SpecOwner == InitOperating /\ [][NextOwner]_vars

(* C27: a cancel request for a stored booking by a caller who is not its owner,
   authenticated or not, is rejected and leaves the bookings (fare, status,
   passenger records) and the occupancy rows unchanged, whatever the toggle,
   the time and the seat list. *)
C27_OnlyOwnerCancels ==
    [][\A in \in OwnerCancelInputs :
          (/\ resp'.op = "cancel"
           /\ in[2] \in BookingIds
           /\ bookings[in[2]].userId # in[1]
           /\ cancel(in[1], in[2], in[3]))
          => /\ resp'.code # 200
             /\ bookings' = bookings /\ bookedseats' = bookedseats]_vars

(* the other user has been told that a confirmed booking, cancellable by its
   owner at this time, is not theirs *)
C27_Witness ==
    /\ resp.op = "cancel" /\ resp.error = "Unauthorized"
    /\ settings["isCancellationEnabled"] = "true"
    /\ \E b \in BookingIds :
          /\ bookings[b].userId = "u1" /\ bookings[b].status = "CONFIRMED"
          /\ now < CutoffOf(bookings[b])
    /\ \E b \in BookingIds : bookings[b].userId = "u2"

-----------------------------------------------------------------------------
(* Sub-admin accounts: POST /users/subadmin, PUT /users/subadmin/:id and
   DELETE /users/:id, each create and update as the steps of its connection *)

(* SELECT district FROM subadmindistricts WHERE district IN (...) [AND userId
   != id]: the named districts that rows of other accounts hold *)
existingAssignments(sd, assignedDistricts, id) ==
    {d \in assignedDistricts : \E u \in DOMAIN sd : u # id /\ d \in sd[u]}

SubAdminIds == {"sa1", "sa2"}

(* uuidv4(): an id that no account and no open transaction has *)
FreshSubAdminIds ==
    {id \in SubAdminIds :
        /\ id \notin DOMAIN users
        /\ \A q \in Procs : proc[q].pc = "sa_checked" => proc[q].id # id}

SubAdminRow == [role |-> "SUB_ADMIN", phone |-> "ph7", govtExamRegistrationNumber |-> Null]

(* lines 2573-2600: requireAdmin, beginTransaction and the check of the named
   districts against the committed rows *)
createSubAdminBegin(p, userId, assignedDistricts) ==
    /\ proc[p].pc = "idle"
    /\ IF ~IsAdmin(userId)
       THEN Respond("createSubAdmin", 403, "AdminRequired") /\ UNCHANGED proc
       ELSE IF existingAssignments(subadmindistricts, assignedDistricts, NoUser) # {}
       THEN Respond("createSubAdmin", 409, "Conflict") /\ UNCHANGED proc
       ELSE /\ \E id \in FreshSubAdminIds :
                  proc' = [proc EXCEPT ![p] = [pc |-> "sa_checked", op |-> "createSubAdmin",
                                               id |-> id,
                                               assignedDistricts |-> assignedDistricts]]
            /\ UNCHANGED resp
    /\ UNCHANGED <<now, settings, discounted_districts, routestops, schedules, subadmindistricts,
                   bookings, bookedseats, govtbeneficiaries, users>>

(* lines 2698-2711: the same check, leaving out the rows of the account itself *)
updateSubAdminBegin(p, userId, id, assignedDistricts) ==
    /\ proc[p].pc = "idle"
    /\ IF ~IsAdmin(userId)
       THEN Respond("updateSubAdmin", 403, "AdminRequired") /\ UNCHANGED proc
       ELSE IF existingAssignments(subadmindistricts, assignedDistricts, id) # {}
       THEN Respond("updateSubAdmin", 409, "Conflict") /\ UNCHANGED proc
       ELSE /\ proc' = [proc EXCEPT ![p] = [pc |-> "sa_checked", op |-> "updateSubAdmin",
                                            id |-> id,
                                            assignedDistricts |-> assignedDistricts]]
            /\ UNCHANGED resp
    /\ UNCHANGED <<now, settings, discounted_districts, routestops, schedules, subadmindistricts,
                   bookings, bookedseats, govtbeneficiaries, users>>

(* lines 2602-2616 and 2713-2737: the writes and the commit. A create inserts
   the users row and one subadmindistricts row per district; an update deletes
   the rows of the account and inserts the named ones. *)
SubAdminCommit(p) ==
    /\ proc[p].pc = "sa_checked"
    /\ subadmindistricts' =
           [u \in DOMAIN subadmindistricts \cup {proc[p].id} |->
               IF u = proc[p].id THEN proc[p].assignedDistricts ELSE subadmindistricts[u]]
    /\ IF proc[p].op = "createSubAdmin"
       THEN /\ users' = [u \in DOMAIN users \cup {proc[p].id} |->
                            IF u = proc[p].id THEN SubAdminRow ELSE users[u]]
            /\ Respond("createSubAdmin", 201, "")
       ELSE /\ UNCHANGED users
            /\ Respond("updateSubAdmin", 200, "")
    /\ Finish(p)
    /\ UNCHANGED <<now, settings, discounted_districts, routestops, schedules, bookings,
                   bookedseats, govtbeneficiaries>>

(* lines 2617-2620 and 2738-2741: an INSERT fails with ER_DUP_ENTRY, which a
   table with a unique key on district raises when rows committed since the
   check hold a named district; the source does not define the table, so this
   outcome and the commit above are both possible *)
SubAdminDupEntry(p) ==
    /\ proc[p].pc = "sa_checked"
    /\ existingAssignments(subadmindistricts, proc[p].assignedDistricts, proc[p].id) # {}
    /\ Respond(proc[p].op, 409, "DuplicateEntry")
    /\ Finish(p)
    /\ UNCHANGED <<now, settings, discounted_districts, routestops, schedules, subadmindistricts,
                   bookings, bookedseats, govtbeneficiaries, users>>

(* DELETE /users/:id *)
deleteUser(userId, id) ==
    /\ IF ~IsAdmin(userId)
       THEN Respond("deleteUser", 403, "AdminRequired")
            /\ UNCHANGED <<users, subadmindistricts>>
       ELSE IF id \notin DOMAIN users
       THEN Respond("deleteUser", 404, "UserNotFound")
            /\ UNCHANGED <<users, subadmindistricts>>
       ELSE IF users[id].role # "SUB_ADMIN"
       THEN Respond("deleteUser", 403, "Unauthorized")
            /\ UNCHANGED <<users, subadmindistricts>>
       ELSE /\ subadmindistricts' = [u \in DOMAIN subadmindistricts \ {id} |->
                                        subadmindistricts[u]]
            /\ users' = [u \in DOMAIN users \ {id} |-> users[u]]
            /\ Respond("deleteUser", 204, "")
    /\ UNCHANGED <<now, settings, discounted_districts, routestops, schedules, bookings,
                   bookedseats, govtbeneficiaries, proc>>

SubAdminCallers == {"admin", "u1"}
SubAdminDistricts == { {}, {"Karnal"}, {"Karnal", "Rohtak"} }
SubAdminTargets == {"sa1", "sub1", "u1"}
SubAdminEdited == {"sa1", "sub1"}

NextSubAdmins ==
    \/ \E p \in Procs, userId \in SubAdminCallers, assignedDistricts \in SubAdminDistricts :
           createSubAdminBegin(p, userId, assignedDistricts)
    \/ \E p \in Procs, userId \in SubAdminCallers, id \in SubAdminEdited \cap DOMAIN users,
             assignedDistricts \in SubAdminDistricts :
           updateSubAdminBegin(p, userId, id, assignedDistricts)
    \/ \E p \in Procs : SubAdminCommit(p)
    \/ \E p \in Procs : SubAdminDupEntry(p)
    \/ \E userId \in SubAdminCallers, id \in SubAdminTargets : deleteUser(userId, id)

SpecSubAdmins == InitOperating /\ [][NextSubAdmins]_vars

(* every district is held by at most one account *)
Exclusive(sd) ==
    \A u1 \in DOMAIN sd, u2 \in DOMAIN sd : u1 # u2 => sd[u1] \cap sd[u2] = {}

(* C28: after every step each district is assigned to at most one sub-admin;
   a create or update by the admin that names a district assigned to a
   different sub-admin is answered with a conflict, and a request answered
   with a conflict changes no account and no assignment. *)
C28_DistrictAssignmentExclusive ==
    [][/\ Exclusive(subadmindistricts')
       /\ \A p \in Procs, assignedDistricts \in SubAdminDistricts :
             (/\ resp'.op = "createSubAdmin"
              /\ existingAssignments(subadmindistricts, assignedDistricts, NoUser) # {}
              /\ createSubAdminBegin(p, "admin", assignedDistricts))
             => resp'.code = 409
       /\ \A p \in Procs, id \in SubAdminEdited, assignedDistricts \in SubAdminDistricts :
             (/\ resp'.op = "updateSubAdmin"
              /\ existingAssignments(subadmindistricts, assignedDistricts, id) # {}
              /\ updateSubAdminBegin(p, "admin", id, assignedDistricts))
             => resp'.code = 409
       /\ (resp'.op \in {"createSubAdmin", "updateSubAdmin"} /\ resp'.code = 409)
             => (subadmindistricts' = subadmindistricts /\ users' = users)]_vars

-----------------------------------------------------------------------------
(* Distinct seats within a booking (SpecCancelRace) *)

SeatIdsOf(b) == [i \in 1..Len(b.passengerDetails) |-> b.passengerDetails[i].seatId]

IsOneToOne(seq) == \A i, j \in 1..Len(seq) : seq[i] = seq[j] => i = j

(* the passengers of booking id on seat seatId that the step cancels *)
CancelledOnSeat(id, seatId) ==
    {i \in 1..Len(bookings[id].passengerDetails) :
        /\ bookings[id].passengerDetails[i].seatId = seatId
        /\ bookings[id].passengerDetails[i].status = "BOOKED"
        /\ bookings'[id].passengerDetails[i].status = "CANCELLED"}

(* C29: the passenger seat ids of every stored paid booking are pairwise
   distinct; a bookPaid request that lists a seat id twice is refused and
   stores nothing; and a cancel that succeeds cancels exactly one passenger for
   each seat id it cancels and removes exactly the occupancy rows of those
   seats. *)
C29_SeatIdsDistinctInBooking ==
    [][/\ \A id \in 1..Len(bookings') :
             ~bookings'[id].isFreeTicket => IsOneToOne(SeatIdsOf(bookings'[id]))
       /\ \A in \in RaceBookedInputs :
             (/\ resp'.op = "bookPaid"
              /\ ~IsOneToOne(RequestedSeatIds(in[2]))
              /\ bookPaid(in[1], "S1", in[2], in[3][1], in[3][2]))
             => /\ resp'.code # 201
                /\ bookings' = bookings /\ bookedseats' = bookedseats
       /\ \A id \in BookingIds :
             (resp'.op = "cancel" /\ resp'.code = 200 /\ bookings'[id] # bookings[id])
             => /\ \A seatId \in SeatsCancelledInStep(id) :
                      Cardinality(CancelledOnSeat(id, seatId)) = 1
                /\ SeatRowsOf(bookedseats, id) \ SeatRowsOf(bookedseats', id)
                      = {r \in SeatRowsOf(bookedseats, id) :
                            r.seatId \in SeatsCancelledInStep(id)}
                /\ Cardinality(SeatRowsOf(bookedseats, id) \ SeatRowsOf(bookedseats', id))
                      = Cardinality(SeatsCancelledInStep(id))]_vars

(* a request listing seat A1 twice has been refused after a seat of a stored
   booking was cancelled *)
C29_Witness ==
    /\ resp.op = "bookPaid" /\ resp.code = 409
    /\ \E id \in BookingIds : bookings[id].status = "PARTIALLY_CANCELLED"

-----------------------------------------------------------------------------
(* Conservation of revenue (SpecRevenue) *)

(* the category buckets of the unfiltered report over a ledger *)
ReportOf(bks) == byCategory(PassengerRows(bks, FALSE, {}))

ZeroBucket(type) ==
    [type |-> type, grossRevenue |-> 0, refundedRevenue |-> 0, bookedTickets |-> 0,
     cancelledTickets |-> 0, netRevenue |-> 0]

BucketOf(report, type) ==
    IF \E k \in 1..Len(report) : report[k].type = type
    THEN report[CHOOSE k \in 1..Len(report) : report[k].type = type]
    ELSE ZeroBucket(type)

PaidIds(bks) == {id \in 1..Len(bks) : ~bks[id].isFreeTicket}

RECURSIVE SumOver(_, _, _)
SumOver(bks, ids, field) ==
    IF ids = {} THEN 0
    ELSE LET id == CHOOSE x \in ids : TRUE
         IN  (IF field = "originalFare" THEN bks[id].originalFare
              ELSE Len(bks[id].passengerDetails))
             + SumOver(bks, ids \ {id}, field)

(* the passengers <<booking, index>> of one type that the step turns from
   BOOKED to CANCELLED *)
MovedInStep(type) ==
    {<<id, i>> \in BookingIds \X (1..3) :
        /\ i <= Len(bookings[id].passengerDetails)
        /\ bookings[id].passengerDetails[i].type = type
        /\ bookings[id].passengerDetails[i].status = "BOOKED"
        /\ bookings'[id].passengerDetails[i].status = "CANCELLED"}

RECURSIVE MovedFares(_)
MovedFares(moved) ==
    IF moved = {} THEN 0
    ELSE LET m == CHOOSE x \in moved : TRUE
         IN  bookings[m[1]].passengerDetails[m[2]].fare + MovedFares(moved \ {m})

(* C30: after every step that writes the ledger gross plus refunded revenue of the report equals the
   sum of originalFare over the paid bookings, and booked plus cancelled
   tickets equals the number of passengers of the paid bookings; a cancel that
   succeeds moves exactly the fares and counts of the passengers it cancels
   from the booked to the cancelled figures of their category and leaves every
   other figure as it was. *)
C30_RevenueConserved ==
    [][(bookings' # bookings \/ (resp'.op = "cancel" /\ resp'.code = 200)) =>
       LET before == ReportOf(bookings)
           after == ReportOf(bookings')
           total == summary(EmptySummary, after)
       IN  /\ total.grossRevenue + total.refundedRevenue
                 = SumOver(bookings', PaidIds(bookings'), "originalFare")
           /\ total.bookedTickets + total.cancelledTickets
                 = SumOver(bookings', PaidIds(bookings'), "passengers")
           /\ (resp'.op = "cancel" /\ resp'.code = 200)
                 => /\ \E type \in SeqToSet(PassengerTypes) : MovedInStep(type) # {}
                    /\ \A type \in SeqToSet(PassengerTypes) :
                          LET old == BucketOf(before, type)
                              new == BucketOf(after, type)
                              moved == MovedInStep(type)
                          IN  /\ new.grossRevenue = old.grossRevenue - MovedFares(moved)
                              /\ new.refundedRevenue = old.refundedRevenue + MovedFares(moved)
                              /\ new.bookedTickets = old.bookedTickets - Cardinality(moved)
                              /\ new.cancelledTickets
                                    = old.cancelledTickets + Cardinality(moved)]_vars

(* a CHILD passenger has just been cancelled in a ledger that also holds booked
   passengers and a free ticket *)
C30_Witness ==
    /\ resp.op = "cancel" /\ resp.code = 200
    /\ BucketOf(ReportOf(bookings), "CHILD").cancelledTickets = 1
    /\ BucketOf(ReportOf(bookings), "NORMAL").bookedTickets >= 1
    /\ \E id \in BookingIds : bookings[id].isFreeTicket

====
